---- MODULE Spec2Model ----
(***************************************************************************)
(* A model of the erl_tokenize lexer: Position arithmetic, the shared      *)
(* utilities (character classes, escape decoder, quotation parser), the    *)
(* per-kind recognizers, the Token::from_text dispatcher and the           *)
(* cursor-based Tokenizer that pulls tokens from an input text.            *)
(*                                                                         *)
(* A character is its Unicode code point (a natural number); a text is a   *)
(* sequence of characters.  The code addresses texts by BYTE index, so     *)
(* every index below is a UTF-8 byte index unless it is called a char      *)
(* index.                                                                  *)
(***************************************************************************)
EXTENDS Integers, Sequences, FiniteSets, TLC

VARIABLES
    text,       \* Tokenizer.text: the input, a sequence of code points
    next_pos,   \* Tokenizer.next_pos: the cursor (a Position)
    last,       \* what the last operation returned
    prev_pos,   \* the cursor before the last operation
    op,         \* the last operation: "new", "next", "consume_char", ...
    emitted,    \* the tokens pulled so far, while the run is clean
    clean,      \* every operation since construction was a successful pull
    saved       \* a position the caller took, and what was pulled there

vars == <<text, next_pos, last, prev_pos, op, emitted, clean, saved>>

-----------------------------------------------------------------------------
(* Characters *)

\* Named code points of the characters the lexer treats specially.
Ch == [ TAB |-> 9, LF |-> 10, VT |-> 11, FF |-> 12, CR |-> 13, ESC |-> 27,
        SP |-> 32, BANG |-> 33, DQ |-> 34, SHARP |-> 35, DOLLAR |-> 36,
        PERCENT |-> 37, AMP |-> 38, SQ |-> 39, LPAREN |-> 40, RPAREN |-> 41,
        STAR |-> 42, PLUS |-> 43, COMMA |-> 44, MINUS |-> 45, DOT |-> 46,
        SLASH |-> 47, COLON |-> 58, SEMI |-> 59, LT |-> 60, EQ |-> 61,
        GT |-> 62, QUESTION |-> 63, AT |-> 64, LBRACKET |-> 91,
        BACKSLASH |-> 92, RBRACKET |-> 93, CARET |-> 94, UNDERSCORE |-> 95,
        BACKQUOTE |-> 96, LBRACE |-> 123, BAR |-> 124, RBRACE |-> 125,
        TILDE |-> 126, DEL |-> 127, NBSP |-> 160 ]

IsLowerAscii(c) == c >= 97 /\ c <= 122        \* 'a'..='z'
IsUpperAscii(c) == c >= 65 /\ c <= 90         \* 'A'..='Z'
IsDecDigit(c)   == c >= 48 /\ c <= 57         \* '0'..='9'

\* char::len_utf8
len_utf8(c) == IF c < 128 THEN 1 ELSE IF c < 2048 THEN 2 ELSE IF c < 65536 THEN 3 ELSE 4

\* char::is_alphabetic, on ASCII, Latin-1 and the CJK unified ideographs
\* (the blocks the model's inputs are drawn from).
is_alphabetic(c) ==
    \/ IsLowerAscii(c) \/ IsUpperAscii(c)
    \/ c \in {170, 181, 186}
    \/ (c >= 192 /\ c <= 255 /\ c # 215 /\ c # 247)
    \/ (c >= 19968 /\ c <= 40959)

\* char::is_lowercase, on the same blocks.
is_lowercase(c) ==
    \/ IsLowerAscii(c)
    \/ c \in {170, 181, 186}
    \/ (c >= 223 /\ c <= 255 /\ c # 247)

\* char::is_ascii_whitespace: space, tab, LF, FF, CR.
is_ascii_whitespace(c) == c \in {Ch.SP, Ch.TAB, Ch.LF, Ch.FF, Ch.CR}

\* char::to_digit(radix): the digit value, or -1 when c is no digit of radix.
to_digit(c, radix) ==
    LET v == IF IsDecDigit(c) THEN c - 48
             ELSE IF IsLowerAscii(c) THEN c - 97 + 10
             ELSE IF IsUpperAscii(c) THEN c - 65 + 10
             ELSE 99
    IN IF v < radix THEN v ELSE -1

\* char::is_digit(radix)
is_digit(c, radix) == to_digit(c, radix) >= 0

-----------------------------------------------------------------------------
(* Texts addressed by byte index *)

RECURSIVE ByteLenUpTo(_, _)
\* Number of UTF-8 bytes of the first k characters of s.
ByteLenUpTo(s, k) == IF k = 0 THEN 0 ELSE ByteLenUpTo(s, k - 1) + len_utf8(s[k])

\* str::len
ByteLen(s) == ByteLenUpTo(s, Len(s))

\* Byte index of the character with char index k (1-based); k = Len(s)+1
\* gives the length: the index char_indices() reports.
ByteIdx(s, k) == ByteLenUpTo(s, k - 1)

\* The number of characters before byte index b, or -1 when b is no
\* code-point boundary of s (or is beyond its end).
CharsBefore(s, b) ==
    LET ks == { k \in 0..Len(s) : ByteLenUpTo(s, k) = b }
    IN IF ks = {} THEN -1 ELSE CHOOSE k \in ks : TRUE

\* The characters of s from char index a to char index b (inclusive).
Sub(s, a, b) == IF b < a THEN <<>> ELSE SubSeq(s, a, b)

\* The characters of s from char index a on.
From(s, a) == Sub(s, a, Len(s))

RECURSIVE FindFrom(_, _, _)
\* Char index of the first character of s at or after char index k that
\* equals c; 0 when there is none.
FindFrom(s, c, k) ==
    IF k > Len(s) THEN 0 ELSE IF s[k] = c THEN k ELSE FindFrom(s, c, k + 1)

\* str::find(c), as a char index (0: None).
Find(s, c) == FindFrom(s, c, 1)

\* str::contains(c)
Contains(s, c) == Find(s, c) # 0

RECURSIVE CountChar(_, _)
\* Number of occurrences of c in s.
CountChar(s, c) ==
    IF s = <<>> THEN 0
    ELSE (IF Head(s) = c THEN 1 ELSE 0) + CountChar(Tail(s), c)

-----------------------------------------------------------------------------
(* position.rs *)

\* Position::new
PositionNew == [offset |-> 0, line |-> 1, column |-> 1]

\* A step that does not move: tiling tells it from step_by_width.
step_by_width_stuck(p, width) == p

\* Position::step_by_width
step_by_width(p, width) ==
    [offset |-> p.offset + width, line |-> p.line, column |-> p.column + width]

\* A step over a text that counts no line: line accounting tells it from
\* step_by_text.
step_by_text_flat(p, s) == [p EXCEPT !.offset = @ + ByteLen(s), !.column = @ + ByteLen(s)]

RECURSIVE step_by_text(_, _)
\* Position::step_by_text
step_by_text(p, s) ==
    LET i == Find(s, Ch.LF)
    IN IF i # 0
       THEN step_by_text([offset |-> p.offset + ByteIdx(s, i) + 1,
                          line   |-> p.line + 1,
                          column |-> 1],
                         From(s, i + 1))
       ELSE [offset |-> p.offset + ByteLen(s),
             line   |-> p.line,
             column |-> p.column + ByteLen(s)]

\* Position::step_by_char
step_by_char(p, c) ==
    IF c = Ch.LF
    THEN [offset |-> p.offset + 1, line |-> p.line + 1, column |-> 1]
    ELSE [offset |-> p.offset + 1, line |-> p.line, column |-> p.column + 1]

-----------------------------------------------------------------------------
(* Results of the recognizers *)

\* A token.  `kind` is the Token variant; the kind-specific value is held in
\* `enum` (Keyword, Symbol, Whitespace tag), `some`/`str` (an Option<String>
\* or a string value), `num` (a char or an integer) and `text` is the text
\* field of the token struct (empty for the structs that have none).
Tok(kind, enum, some, str, num, txt, pos) ==
    [tag |-> "Token", kind |-> kind, enum |-> enum, some |-> some, str |-> str,
     num |-> num, text |-> txt, pos |-> pos]

\* An Error variant with its position (error.rs).
Err(kind, pos) ==
    [tag |-> "Err", kind |-> kind, enum |-> "", some |-> FALSE, str |-> <<>>,
     num |-> 0, text |-> <<>>, pos |-> pos]

\* The call did not return: a slice index out of range, inverted, or not on
\* a code-point boundary aborts the thread.
Panic(why) ==
    [tag |-> "Panic", kind |-> why, enum |-> "", some |-> FALSE, str |-> <<>>,
     num |-> 0, text |-> <<>>, pos |-> PositionNew]

\* Iterator::next returned None.
EndOfStream ==
    [tag |-> "None", kind |-> "", enum |-> "", some |-> FALSE, str |-> <<>>,
     num |-> 0, text |-> <<>>, pos |-> PositionNew]

IsTok(r) == r.tag = "Token"
IsErr(r) == r.tag = "Err"
IsPanic(r) == r.tag = "Panic"

-----------------------------------------------------------------------------
(* util.rs *)

\* An atom head test that takes every alphabetic character.
is_atom_head_char_alphabetic(c) == is_alphabetic(c)

\* util::is_atom_head_char
is_atom_head_char(c) ==
    IF IsLowerAscii(c) THEN TRUE ELSE is_lowercase(c) /\ is_alphabetic(c)

\* util::is_atom_non_head_char
is_atom_non_head_char(c) ==
    IF c = Ch.AT \/ c = Ch.UNDERSCORE \/ IsDecDigit(c) THEN TRUE ELSE is_alphabetic(c)

\* util::is_variable_head_char
is_variable_head_char(c) == IsUpperAscii(c) \/ c = Ch.UNDERSCORE

\* util::is_variable_non_head_char
is_variable_non_head_char(c) ==
    IsLowerAscii(c) \/ IsUpperAscii(c) \/ c = Ch.AT \/ c = Ch.UNDERSCORE \/ IsDecDigit(c)

\* Largest code point; char::from_u32 also rejects the surrogates.
IsScalar(n) == n >= 0 /\ n <= 1114111 /\ ~(n >= 55296 /\ n <= 57343)

RECURSIVE RadixDigits(_, _, _, _)
\* Value of the digit string s[k..] in `radix`, accumulated from acc; -1
\* when a character is no digit of the radix or the value leaves the range
\* of a Unicode scalar (beyond which u32 parsing or char::from_u32 fails).
RadixDigits(s, k, radix, acc) ==
    IF k > Len(s) THEN acc
    ELSE LET d == to_digit(s[k], radix)
         IN IF d < 0 THEN -1
            ELSE IF acc * radix + d > 1114111 THEN -1
            ELSE RadixDigits(s, k + 1, radix, acc * radix + d)

\* Num::from_str_radix(buf, 16) for u32 followed by char::from_u32: the
\* code point, or -1 on failure.  An unsigned parse accepts a leading '+'.
HexCode(buf) ==
    LET digits == IF buf # <<>> /\ buf[1] = Ch.PLUS THEN Tail(buf) ELSE buf
        n == IF digits = <<>> THEN -1 ELSE RadixDigits(digits, 1, 16, 0)
    IN IF n >= 0 /\ IsScalar(n) THEN n ELSE -1

\* The escape decoder's answers: the decoded char and the char index of the
\* next unread character, or a failure.
EscOk(c, nxt) == [ok |-> TRUE, c |-> c, next |-> nxt]
EscFail == [ok |-> FALSE, c |-> 0, next |-> 0]

\* The loop of the octal branch of parse_escaped_char: c is the first digit,
\* k the char index of the next unread character.
RECURSIVE OctalLoop(_, _, _, _, _)
OctalLoop(s, k, c, n, limit) ==
    IF k <= Len(s) /\ s[k] >= 48 /\ s[k] <= 55
    THEN LET n2 == (n * 8) + to_digit(c, 8)
         IN IF limit - 1 = 0 THEN [n |-> n2, next |-> k + 1]
            ELSE OctalLoop(s, k + 1, c, n2, limit - 1)
    ELSE [n |-> n, next |-> k]

\* util::parse_escaped_char: `chars` is s read from char index k on (the
\* character after the backslash).  Every failure is
\* Error::invalid_escaped_char(pos) for the pos the caller passed.
parse_escaped_char(s, k) ==
    IF k > Len(s) THEN EscFail
    ELSE LET c == s[k] IN
      CASE c = 98 (* b *) -> EscOk(8, k + 1)
        [] c = 100 (* d *) -> EscOk(127, k + 1)
        [] c = 101 (* e *) -> EscOk(27, k + 1)
        [] c = 102 (* f *) -> EscOk(12, k + 1)
        [] c = 110 (* n *) -> EscOk(Ch.LF, k + 1)
        [] c = 114 (* r *) -> EscOk(Ch.CR, k + 1)
        [] c = 115 (* s *) -> EscOk(Ch.SP, k + 1)
        [] c = 116 (* t *) -> EscOk(Ch.TAB, k + 1)
        [] c = 118 (* v *) -> EscOk(11, k + 1)
        [] c = Ch.CARET ->
             IF k + 1 > Len(s) THEN EscFail
             ELSE EscOk(s[k + 1] % 32, k + 2)
        [] c = 120 (* x *) ->
             IF k + 1 > Len(s) THEN EscFail
             ELSE IF s[k + 1] = Ch.LBRACE
             THEN \* take_while(|c| *c != '}'): reads through the '}' or to the end
                  LET close == FindFrom(s, Ch.RBRACE, k + 2)
                      buf == IF close = 0 THEN From(s, k + 2) ELSE Sub(s, k + 2, close - 1)
                      nxt == IF close = 0 THEN Len(s) + 1 ELSE close + 1
                      code == HexCode(buf)
                  IN IF code < 0 THEN EscFail ELSE EscOk(code, nxt)
             ELSE IF k + 2 > Len(s) THEN EscFail
             ELSE LET code == HexCode(<<s[k + 1], s[k + 2]>>)
                  IN IF code < 0 THEN EscFail ELSE EscOk(code, k + 3)
        [] c >= 48 /\ c <= 55 ->
             LET r == OctalLoop(s, k + 1, c, to_digit(c, 8), 2)
             IN IF IsScalar(r.n) THEN EscOk(r.n, r.next) ELSE EscFail
        [] OTHER -> EscOk(c, k + 1)

\* The quotation parser's answers: the decoded string, whether it is owned
\* (Cow::Owned) and the byte index of the terminator; or an error.
QuoteOk(str, owned, end) == [ok |-> TRUE, str |-> str, owned |-> owned, end |-> end, err |-> Err("", PositionNew)]
QuoteFail(e) == [ok |-> FALSE, str |-> <<>>, owned |-> FALSE, end |-> 0, err |-> e]

RECURSIVE parse_quotation_owned_loop(_, _, _, _, _)
\* The loop of util::parse_quotation_owned over input from char index k.
parse_quotation_owned_loop(pos, input, terminator, k, buf) ==
    IF k > Len(input) THEN QuoteFail(Err("NoClosingQuotation", pos))
    ELSE LET c == input[k] IN
         IF c = Ch.BACKSLASH
         THEN LET Escaped(e) ==
                    IF ~e.ok
                    THEN QuoteFail(Err("InvalidEscapedChar",
                                       step_by_width(step_by_width(pos, 1), ByteIdx(input, k))))
                    ELSE parse_quotation_owned_loop(pos, input, terminator, e.next,
                                                    Append(buf, e.c))
              IN Escaped(parse_escaped_char(input, k + 1))
         ELSE IF c = terminator THEN QuoteOk(buf, TRUE, ByteIdx(input, k))
         ELSE parse_quotation_owned_loop(pos, input, terminator, k + 1, Append(buf, c))

\* util::parse_quotation_owned
parse_quotation_owned(pos, input, terminator) ==
    parse_quotation_owned_loop(pos, input, terminator, 1, <<>>)

\* util::parse_quotation
parse_quotation(pos, input, terminator) ==
    LET maybe_end == Find(input, terminator)
    IN IF maybe_end = 0 THEN QuoteFail(Err("NoClosingQuotation", pos))
       ELSE IF Contains(Sub(input, 1, maybe_end - 1), Ch.BACKSLASH)
       THEN parse_quotation_owned(pos, input, terminator)
       ELSE QuoteOk(Sub(input, 1, maybe_end - 1), FALSE, ByteIdx(input, maybe_end))

-----------------------------------------------------------------------------
(* values: the enum tags and their spellings *)

\* Keyword::as_str
KeywordAsStr(k) ==
    CASE k = "After" -> <<97, 102, 116, 101, 114>>  \* after
      [] k = "And" -> <<97, 110, 100>>  \* and
      [] k = "Andalso" -> <<97, 110, 100, 97, 108, 115, 111>>  \* andalso
      [] k = "Band" -> <<98, 97, 110, 100>>  \* band
      [] k = "Begin" -> <<98, 101, 103, 105, 110>>  \* begin
      [] k = "Bnot" -> <<98, 110, 111, 116>>  \* bnot
      [] k = "Bor" -> <<98, 111, 114>>  \* bor
      [] k = "Bsl" -> <<98, 115, 108>>  \* bsl
      [] k = "Bsr" -> <<98, 115, 114>>  \* bsr
      [] k = "Bxor" -> <<98, 120, 111, 114>>  \* bxor
      [] k = "Case" -> <<99, 97, 115, 101>>  \* case
      [] k = "Catch" -> <<99, 97, 116, 99, 104>>  \* catch
      [] k = "Cond" -> <<99, 111, 110, 100>>  \* cond
      [] k = "Div" -> <<100, 105, 118>>  \* div
      [] k = "End" -> <<101, 110, 100>>  \* end
      [] k = "Fun" -> <<102, 117, 110>>  \* fun
      [] k = "If" -> <<105, 102>>  \* if
      [] k = "Let" -> <<108, 101, 116>>  \* let
      [] k = "Not" -> <<110, 111, 116>>  \* not
      [] k = "Of" -> <<111, 102>>  \* of
      [] k = "Or" -> <<111, 114>>  \* or
      [] k = "Orelse" -> <<111, 114, 101, 108, 115, 101>>  \* orelse
      [] k = "Receive" -> <<114, 101, 99, 101, 105, 118, 101>>  \* receive
      [] k = "Rem" -> <<114, 101, 109>>  \* rem
      [] k = "Try" -> <<116, 114, 121>>  \* try
      [] k = "When" -> <<119, 104, 101, 110>>  \* when
      [] k = "Xor" -> <<120, 111, 114>>  \* xor
      [] k = "Maybe" -> <<109, 97, 121, 98, 101>>  \* maybe
      [] k = "Else" -> <<101, 108, 115, 101>>  \* else
      [] OTHER -> <<>>

\* Symbol::as_str
SymbolAsStr(v) ==
    CASE v = "ExactEq" -> <<61, 58, 61>>  \* =:=
      [] v = "ExactNotEq" -> <<61, 47, 61>>  \* =/=
      [] v = "TripleDot" -> <<46, 46, 46>>  \* ...
      [] v = "StrictLeftArrow" -> <<60, 58, 45>>  \* <:-
      [] v = "StrictDoubleLeftArrow" -> <<60, 58, 61>>  \* <:=
      [] v = "DoubleColon" -> <<58, 58>>  \* ::
      [] v = "MapMatch" -> <<58, 61>>  \* :=
      [] v = "DoubleVerticalBar" -> <<124, 124>>  \* ||
      [] v = "MinusMinus" -> <<45, 45>>  \* --
      [] v = "PlusPlus" -> <<43, 43>>  \* ++
      [] v = "RightArrow" -> <<45, 62>>  \* ->
      [] v = "LeftArrow" -> <<60, 45>>  \* <-
      [] v = "DoubleRightArrow" -> <<61, 62>>  \* =>
      [] v = "DoubleLeftArrow" -> <<60, 61>>  \* <=
      [] v = "DoubleRightAngle" -> <<62, 62>>  \* >>
      [] v = "DoubleLeftAngle" -> <<60, 60>>  \* <<
      [] v = "Eq" -> <<61, 61>>  \* ==
      [] v = "NotEq" -> <<47, 61>>  \* /=
      [] v = "GreaterEq" -> <<62, 61>>  \* >=
      [] v = "LessEq" -> <<61, 60>>  \* =<
      [] v = "DoubleQuestion" -> <<63, 63>>  \* ??
      [] v = "MaybeMatch" -> <<63, 61>>  \* ?=
      [] v = "DoubleDot" -> <<46, 46>>  \* ..
      [] v = "DoubleAmpersand" -> <<38, 38>>  \* &&
      [] v = "OpenSquare" -> <<91>>  \* [
      [] v = "CloseSquare" -> <<93>>  \* ]
      [] v = "OpenParen" -> <<40>>  \* (
      [] v = "CloseParen" -> <<41>>  \* )
      [] v = "OpenBrace" -> <<123>>  \* {
      [] v = "CloseBrace" -> <<125>>  \* }
      [] v = "Sharp" -> <<35>>  \* #
      [] v = "Slash" -> <<47>>  \* /
      [] v = "Dot" -> <<46>>  \* .
      [] v = "Comma" -> <<44>>  \* ,
      [] v = "Colon" -> <<58>>  \* :
      [] v = "Semicolon" -> <<59>>  \* ;
      [] v = "Match" -> <<61>>  \* =
      [] v = "VerticalBar" -> <<124>>  \* |
      [] v = "Question" -> <<63>>  \* ?
      [] v = "Not" -> <<33>>  \* !
      [] v = "Hyphen" -> <<45>>  \* -
      [] v = "Plus" -> <<43>>  \* +
      [] v = "Multiply" -> <<42>>  \* *
      [] v = "Greater" -> <<62>>  \* >
      [] v = "Less" -> <<60>>  \* <
      [] OTHER -> <<>>

\* Whitespace::as_str
WhitespaceAsStr(w) ==
    CASE w = "Space" -> <<Ch.SP>>
      [] w = "Tab" -> <<Ch.TAB>>
      [] w = "Return" -> <<Ch.CR>>
      [] w = "Newline" -> <<Ch.LF>>
      [] w = "NoBreakSpace" -> <<Ch.NBSP>>
      [] OTHER -> <<>>

-----------------------------------------------------------------------------
(* tokens.rs: the match tables of the recognizers *)

\* A keyword table with no entry: the keyword/atom separation tells it from
\* KeywordMatch.
KeywordMatch_none(s) == ""

\* The match of KeywordToken::from_text on the atom's text: the Keyword tag,
\* or "" for the arm that returns Error::unknown_keyword.
KeywordMatch(s) ==
    CASE s = <<97, 102, 116, 101, 114>> -> "After"  \* after
      [] s = <<97, 110, 100>> -> "And"  \* and
      [] s = <<97, 110, 100, 97, 108, 115, 111>> -> "Andalso"  \* andalso
      [] s = <<98, 97, 110, 100>> -> "Band"  \* band
      [] s = <<98, 101, 103, 105, 110>> -> "Begin"  \* begin
      [] s = <<98, 110, 111, 116>> -> "Bnot"  \* bnot
      [] s = <<98, 111, 114>> -> "Bor"  \* bor
      [] s = <<98, 115, 108>> -> "Bsl"  \* bsl
      [] s = <<98, 115, 114>> -> "Bsr"  \* bsr
      [] s = <<98, 120, 111, 114>> -> "Bxor"  \* bxor
      [] s = <<99, 97, 115, 101>> -> "Case"  \* case
      [] s = <<99, 97, 116, 99, 104>> -> "Catch"  \* catch
      [] s = <<99, 111, 110, 100>> -> "Cond"  \* cond
      [] s = <<100, 105, 118>> -> "Div"  \* div
      [] s = <<101, 110, 100>> -> "End"  \* end
      [] s = <<102, 117, 110>> -> "Fun"  \* fun
      [] s = <<105, 102>> -> "If"  \* if
      [] s = <<108, 101, 116>> -> "Let"  \* let
      [] s = <<110, 111, 116>> -> "Not"  \* not
      [] s = <<111, 102>> -> "Of"  \* of
      [] s = <<111, 114>> -> "Or"  \* or
      [] s = <<111, 114, 101, 108, 115, 101>> -> "Orelse"  \* orelse
      [] s = <<114, 101, 99, 101, 105, 118, 101>> -> "Receive"  \* receive
      [] s = <<114, 101, 109>> -> "Rem"  \* rem
      [] s = <<116, 114, 121>> -> "Try"  \* try
      [] s = <<119, 104, 101, 110>> -> "When"  \* when
      [] s = <<120, 111, 114>> -> "Xor"  \* xor
      [] s = <<109, 97, 121, 98, 101>> -> "Maybe"  \* maybe
      [] s = <<101, 108, 115, 101>> -> "Else"  \* else
      [] OTHER -> ""

\* A symbol table without three-character entries: longest match tells it
\* from SymbolMatch3.
SymbolMatch3_none(b) == ""

\* The match of SymbolToken::from_text on &bytes[0..3]: the Symbol tag, or "" for None.
SymbolMatch3(b) ==
    CASE b = <<61, 58, 61>> -> "ExactEq"  \* =:=
      [] b = <<61, 47, 61>> -> "ExactNotEq"  \* =/=
      [] b = <<46, 46, 46>> -> "TripleDot"  \* ...
      [] b = <<60, 58, 45>> -> "StrictLeftArrow"  \* <:-
      [] b = <<60, 58, 61>> -> "StrictDoubleLeftArrow"  \* <:=
      [] OTHER -> ""

\* The match of SymbolToken::from_text on &bytes[0..2]: the Symbol tag, or "" for None.
SymbolMatch2(b) ==
    CASE b = <<58, 58>> -> "DoubleColon"  \* ::
      [] b = <<58, 61>> -> "MapMatch"  \* :=
      [] b = <<124, 124>> -> "DoubleVerticalBar"  \* ||
      [] b = <<45, 45>> -> "MinusMinus"  \* --
      [] b = <<43, 43>> -> "PlusPlus"  \* ++
      [] b = <<45, 62>> -> "RightArrow"  \* ->
      [] b = <<60, 45>> -> "LeftArrow"  \* <-
      [] b = <<61, 62>> -> "DoubleRightArrow"  \* =>
      [] b = <<60, 61>> -> "DoubleLeftArrow"  \* <=
      [] b = <<62, 62>> -> "DoubleRightAngle"  \* >>
      [] b = <<60, 60>> -> "DoubleLeftAngle"  \* <<
      [] b = <<61, 61>> -> "Eq"  \* ==
      [] b = <<47, 61>> -> "NotEq"  \* /=
      [] b = <<62, 61>> -> "GreaterEq"  \* >=
      [] b = <<61, 60>> -> "LessEq"  \* =<
      [] b = <<63, 63>> -> "DoubleQuestion"  \* ??
      [] b = <<63, 61>> -> "MaybeMatch"  \* ?=
      [] b = <<46, 46>> -> "DoubleDot"  \* ..
      [] b = <<38, 38>> -> "DoubleAmpersand"  \* &&
      [] OTHER -> ""

\* The match of SymbolToken::from_text on bytes[0]: the Symbol tag, or "" for None.
SymbolMatch1(b) ==
    CASE b = <<91>> -> "OpenSquare"  \* [
      [] b = <<93>> -> "CloseSquare"  \* ]
      [] b = <<40>> -> "OpenParen"  \* (
      [] b = <<41>> -> "CloseParen"  \* )
      [] b = <<123>> -> "OpenBrace"  \* {
      [] b = <<125>> -> "CloseBrace"  \* }
      [] b = <<35>> -> "Sharp"  \* #
      [] b = <<47>> -> "Slash"  \* /
      [] b = <<46>> -> "Dot"  \* .
      [] b = <<44>> -> "Comma"  \* ,
      [] b = <<58>> -> "Colon"  \* :
      [] b = <<59>> -> "Semicolon"  \* ;
      [] b = <<61>> -> "Match"  \* =
      [] b = <<124>> -> "VerticalBar"  \* |
      [] b = <<63>> -> "Question"  \* ?
      [] b = <<33>> -> "Not"  \* !
      [] b = <<45>> -> "Hyphen"  \* -
      [] b = <<43>> -> "Plus"  \* +
      [] b = <<42>> -> "Multiply"  \* *
      [] b = <<62>> -> "Greater"  \* >
      [] b = <<60>> -> "Less"  \* <
      [] OTHER -> ""

-----------------------------------------------------------------------------
(* tokens.rs: the recognizers *)

\* text.get_unchecked(0..end): the characters before byte index end.
Prefix(s, end) == Sub(s, 1, CharsBefore(s, end))

\* Whether &s[a..b] is a slice: a <= b <= len, both on code-point boundaries.
SliceOk(s, a, b) == a <= b /\ CharsBefore(s, a) >= 0 /\ CharsBefore(s, b) >= 0

\* &s[a..b], for SliceOk(s, a, b).
Slice(s, a, b) == Sub(s, CharsBefore(s, a) + 1, CharsBefore(s, b))

\* Char index of the first character of s at or after char index k that is
\* not an atom continuation character; 0 when there is none.
FirstNotAtomNonHead(s, k) ==
    LET idx == { i \in k..Len(s) : ~is_atom_non_head_char(s[i]) }
    IN IF idx = {} THEN 0 ELSE CHOOSE i \in idx : \A j \in idx : i <= j

\* The same for variable continuation characters.
FirstNotVariableNonHead(s, k) ==
    LET idx == { i \in k..Len(s) : ~is_variable_non_head_char(s[i]) }
    IN IF idx = {} THEN 0 ELSE CHOOSE i \in idx : \A j \in idx : i <= j

\* AtomToken::from_text
AtomToken_from_text(txt, pos) ==
    IF txt = <<>> THEN Err("InvalidAtomToken", pos)
    ELSE LET head == txt[1]
             tail == From(txt, 2)
         IN IF head = Ch.SQ
            THEN LET Quoted(q) ==
                       IF ~q.ok THEN q.err
                       ELSE Tok("Atom", "", TRUE, q.str, 0, Prefix(txt, 1 + q.end + 1), pos)
                 IN Quoted(parse_quotation(pos, tail, Ch.SQ))
            ELSE IF ~is_atom_head_char(head) THEN Err("InvalidAtomToken", pos)
            ELSE LET i == FirstNotAtomNonHead(tail, 1)
                     end == len_utf8(head)
                            + (IF i = 0 THEN ByteLen(tail) ELSE ByteIdx(tail, i))
                 IN Tok("Atom", "", FALSE, <<>>, 0, Prefix(txt, end), pos)

\* CharToken::from_text
CharToken_from_text(txt, pos) ==
    IF txt = <<>> \/ txt[1] # Ch.DOLLAR THEN Err("InvalidCharToken", pos)
    ELSE IF Len(txt) < 2 THEN Err("InvalidCharToken", pos)
    ELSE LET c == txt[2]
         IN IF c = Ch.BACKSLASH
            THEN LET Escaped(e) ==
                       IF ~e.ok THEN Err("InvalidEscapedChar", pos)
                       ELSE LET end == IF e.next <= Len(txt) THEN ByteIdx(txt, e.next)
                                       ELSE ByteLen(txt)
                            IN Tok("Char", "", FALSE, <<>>, e.c, Prefix(txt, end), pos)
                 IN Escaped(parse_escaped_char(txt, 3))
            ELSE LET end == IF 3 <= Len(txt) THEN ByteIdx(txt, 3) ELSE ByteLen(txt)
                 IN Tok("Char", "", FALSE, <<>>, c, Prefix(txt, end), pos)

\* CommentToken::from_text
CommentToken_from_text(txt, pos) ==
    IF txt = <<>> \/ txt[1] # Ch.PERCENT THEN Err("InvalidCommentToken", pos)
    ELSE LET i == Find(txt, Ch.LF)
             end == IF i = 0 THEN ByteLen(txt) ELSE ByteIdx(txt, i)
         IN Tok("Comment", "", FALSE, <<>>, 0, Prefix(txt, end), pos)

\* VariableToken::from_text
VariableToken_from_text(txt, pos) ==
    IF txt = <<>> THEN Err("InvalidVariableToken", pos)
    ELSE IF ~is_variable_head_char(txt[1]) THEN Err("InvalidVariableToken", pos)
    ELSE LET i == FirstNotVariableNonHead(txt, 2)
             end == IF i = 0 THEN ByteLen(txt) ELSE ByteIdx(txt, i)
         IN Tok("Variable", "", FALSE, <<>>, 0, Prefix(txt, end), pos)

\* A whitespace recognizer that forgets the position it was given: the
\* chaining of positions tells it from WhitespaceToken_from_text.
WhitespaceToken_at_origin(txt, pos) ==
    IF txt = <<>> \/ txt[1] # Ch.SP
    THEN Err("InvalidWhitespaceToken", pos)
    ELSE Tok("Whitespace", "Space", FALSE, <<>>, 0, <<>>, PositionNew)

\* WhitespaceToken::from_text
WhitespaceToken_from_text(txt, pos) ==
    IF txt = <<>> THEN Err("InvalidWhitespaceToken", pos)
    ELSE LET c == txt[1]
             value == CASE c = Ch.SP -> "Space"
                        [] c = Ch.TAB -> "Tab"
                        [] c = Ch.CR -> "Return"
                        [] c = Ch.LF -> "Newline"
                        [] c = Ch.NBSP -> "NoBreakSpace"
                        [] OTHER -> ""
         IN IF value = "" THEN Err("InvalidWhitespaceToken", pos)
            ELSE Tok("Whitespace", value, FALSE, <<>>, 0, <<>>, pos)

\* SymbolToken::from_text.  The match is on bytes; a byte of a multibyte
\* character is >= 128 and equals no byte of a spelling, so a spelling
\* matches exactly when the leading characters are its characters.
SymbolToken_from_text(txt, pos) ==
    LET s3 == IF ByteLen(txt) >= 3 /\ Len(txt) >= 3 THEN SymbolMatch3(Sub(txt, 1, 3)) ELSE ""
        s2 == IF s3 = "" /\ ByteLen(txt) >= 2 /\ Len(txt) >= 2
              THEN SymbolMatch2(Sub(txt, 1, 2)) ELSE s3
        s1 == IF s2 = "" /\ txt # <<>> THEN SymbolMatch1(Sub(txt, 1, 1)) ELSE s2
    IN IF s1 # "" THEN Tok("Symbol", s1, FALSE, <<>>, 0, <<>>, pos)
       ELSE Err("InvalidSymbolToken", pos)

\* KeywordToken::from_text
KeywordToken_from_text(txt, pos) ==
    LET OfAtom(atom) ==
            IF ~IsTok(atom) THEN atom
            ELSE LET value == KeywordMatch(atom.text)
                 IN IF value = "" THEN [Err("UnknownKeyword", pos) EXCEPT !.str = atom.text]
                    ELSE Tok("Keyword", value, FALSE, <<>>, 0, <<>>, pos)
    IN OfAtom(AtomToken_from_text(txt, pos))

RECURSIVE DigitsValue(_, _, _, _)
\* The number the digit string s[k..] denotes in `radix`, from acc.
DigitsValue(s, k, radix, acc) ==
    IF k > Len(s) THEN acc
    ELSE DigitsValue(s, k + 1, radix, acc * radix + to_digit(s[k], radix))

\* digits.parse() of a run of decimal digits as a radix: the value, or -1 for
\* a parse error; a value above 36 is reported as 37 (every caller rejects a
\* radix above 36 with the error it gives a parse error).
RECURSIVE ParseRadixFrom(_, _, _)
ParseRadixFrom(s, k, acc) ==
    IF k > Len(s) THEN acc
    ELSE IF ~IsDecDigit(s[k]) THEN -1
    ELSE LET n == acc * 10 + (s[k] - 48)
         IN ParseRadixFrom(s, k + 1, IF n > 36 THEN 37 ELSE n)

\* A radix that is ten whatever the digits say: the value of a radix integer
\* tells it from ParseRadix.
ParseRadix_ten(s) == 10

ParseRadix(s) == IF s = <<>> THEN -1 ELSE ParseRadixFrom(s, 1, 0)

RECURSIVE IntegerLoop(_, _, _)
\* The while loop of IntegerToken::from_text over txt from char index k;
\* st holds has_radix, radix, digits and needs_digit.  The answer holds the
\* final locals, the char index `next` the iterator is left at, and
\* `failed` when the loop returned an error.
IntegerLoop(txt, k, st) ==
    IF k > Len(txt) THEN [st EXCEPT !.next = k]
    ELSE LET c == txt[k] IN
         IF c = Ch.SHARP /\ ~st.has_radix /\ ~st.needs_digit
         THEN LET r == ParseRadix(st.digits)
              IN IF r < 0 \/ ~(1 < r /\ r < 37) THEN [st EXCEPT !.failed = TRUE]
                 ELSE IntegerLoop(txt, k + 1,
                        [st EXCEPT !.radix = r, !.digits = <<>>,
                                   !.needs_digit = TRUE, !.has_radix = TRUE])
         ELSE IF is_digit(c, st.radix)
         THEN IntegerLoop(txt, k + 1,
                [st EXCEPT !.digits = Append(@, c), !.needs_digit = FALSE])
         ELSE IF c = Ch.UNDERSCORE /\ ~st.needs_digit
         THEN IntegerLoop(txt, k + 1, [st EXCEPT !.needs_digit = TRUE])
         ELSE [st EXCEPT !.next = k]

\* A recognizer that accepts what was read when the run stops where a digit
\* is needed: the underscore rule tells it from IntegerToken_from_text.
IntegerToken_from_text_lenient(txt, pos) ==
    LET After(st) ==
            IF st.failed \/ st.digits = <<>> THEN Err("InvalidIntegerToken", pos)
            ELSE LET end == IF st.next <= Len(txt) THEN ByteIdx(txt, st.next) ELSE ByteLen(txt)
                 IN Tok("Integer", "", FALSE, <<>>,
                        DigitsValue(st.digits, 1, st.radix, 0), Prefix(txt, end), pos)
    IN After(IntegerLoop(txt, 1,
               [has_radix |-> FALSE, radix |-> 10, digits |-> <<>>,
                needs_digit |-> TRUE, next |-> 0, failed |-> FALSE]))

\* IntegerToken::from_text
IntegerToken_from_text(txt, pos) ==
    LET After(st) ==
            IF st.failed \/ st.needs_digit THEN Err("InvalidIntegerToken", pos)
            ELSE LET end == IF st.next <= Len(txt) THEN ByteIdx(txt, st.next) ELSE ByteLen(txt)
                 IN Tok("Integer", "", FALSE, <<>>,
                        DigitsValue(st.digits, 1, st.radix, 0), Prefix(txt, end), pos)
    IN After(IntegerLoop(txt, 1,
               [has_radix |-> FALSE, radix |-> 10, digits |-> <<>>,
                needs_digit |-> TRUE, next |-> 0, failed |-> FALSE]))

RECURSIVE is_based_from(_, _)
\* FloatToken::is_based, from char index k.
is_based_from(txt, k) ==
    IF k > Len(txt) THEN FALSE
    ELSE IF IsDecDigit(txt[k]) \/ txt[k] = Ch.UNDERSCORE THEN is_based_from(txt, k + 1)
    ELSE ByteIdx(txt, k) > 0 /\ txt[k] = Ch.SHARP

\* FloatToken::is_based
is_based(txt) == is_based_from(txt, 1)

RECURSIVE read_digits_loop(_, _, _, _)
\* The loop of read_digits (in FloatToken::from_text): returns buf, the char
\* index left in the iterator and needs_digit.
read_digits_loop(txt, k, buf, needs_digit) ==
    IF k <= Len(txt) /\ (IsDecDigit(txt[k]) \/ txt[k] = Ch.UNDERSCORE)
    THEN IF txt[k] = Ch.UNDERSCORE
         THEN IF needs_digit THEN [buf |-> buf, next |-> k, needs_digit |-> needs_digit]
              ELSE read_digits_loop(txt, k + 1, buf, TRUE)
         ELSE read_digits_loop(txt, k + 1, Append(buf, txt[k]), FALSE)
    ELSE [buf |-> buf, next |-> k, needs_digit |-> needs_digit]

\* read_digits: ok is FALSE for Err(invalid_float_token).
read_digits(txt, k, buf) ==
    LET Read(r) == [ok |-> ~r.needs_digit, buf |-> r.buf, next |-> r.next]
    IN Read(read_digits_loop(txt, k, buf, TRUE))

\* FloatToken::parse_digits: [ok, neg, n] with n the magnitude; `signed`
\* tells whether the target type (i32, not u32) accepts the leading '-'.
RECURSIVE parse_digits_loop(_, _, _)
parse_digits_loop(txt, k, st) ==
    IF k > Len(txt) THEN st
    ELSE LET c == txt[k] IN
         IF k = 1 /\ c = Ch.MINUS
         THEN parse_digits_loop(txt, k + 1, [st EXCEPT !.neg = TRUE, !.prev = FALSE])
         ELSE IF IsDecDigit(c)
         THEN parse_digits_loop(txt, k + 1,
                [st EXCEPT !.prev = TRUE, !.n = @ * 10 + (c - 48)])
         ELSE IF st.prev /\ c = Ch.UNDERSCORE
         THEN parse_digits_loop(txt, k + 1, [st EXCEPT !.prev = FALSE])
         ELSE [st EXCEPT !.ok = FALSE]

parse_digits(txt, signed) ==
    LET Parsed(st) ==
            IF ~st.ok \/ ~st.prev THEN [ok |-> FALSE, neg |-> FALSE, n |-> 0]
            ELSE IF st.neg /\ ~signed THEN [ok |-> FALSE, neg |-> FALSE, n |-> 0]
            ELSE [ok |-> TRUE, neg |-> st.neg, n |-> st.n]
    IN Parsed(parse_digits_loop(txt, 1,
                [ok |-> TRUE, neg |-> FALSE, prev |-> FALSE, n |-> 0]))

RECURSIVE RadixIntLoop(_, _, _, _)
\* The first loop of FloatToken::from_text_radix (the integer part), over s
\* from char index k: st holds value, is_prev_digit; `broke` is set when
\* the loop left by its break (at the '.'), `failed` when it returned Err.
RadixIntLoop(s, k, radix, st) ==
    IF k > Len(s) THEN [st EXCEPT !.next = k]
    ELSE LET c == s[k] IN
         IF st.prev /\ c = Ch.UNDERSCORE
         THEN RadixIntLoop(s, k + 1, radix, [st EXCEPT !.prev = FALSE])
         ELSE IF st.prev /\ c = Ch.DOT
         THEN [st EXCEPT !.prev = TRUE, !.next = k + 1]
         ELSE IF to_digit(c, radix) < 0 THEN [st EXCEPT !.failed = TRUE]
         ELSE RadixIntLoop(s, k + 1, radix,
                [st EXCEPT !.prev = TRUE, !.value = @ * radix + to_digit(c, radix)])

RECURSIVE RadixFracLoop(_, _, _, _)
\* The second loop (the fraction): st holds the fraction's digits as a
\* number `frac` over radix^(j-1), is_prev_digit and has_exp.
RadixFracLoop(s, k, radix, st) ==
    IF k > Len(s) THEN [st EXCEPT !.next = k]
    ELSE LET c == s[k] IN
         IF st.prev /\ c = Ch.UNDERSCORE
         THEN RadixFracLoop(s, k + 1, radix, [st EXCEPT !.prev = FALSE])
         ELSE IF st.prev /\ c = Ch.SHARP
         THEN [st EXCEPT !.prev = TRUE, !.has_exp = TRUE, !.next = k + 1]
         ELSE IF to_digit(c, radix) >= 0
         THEN RadixFracLoop(s, k + 1, radix,
                [st EXCEPT !.prev = TRUE, !.frac = @ * radix + to_digit(c, radix),
                           !.j = @ + 1])
         ELSE [st EXCEPT !.next = k]

\* Char index of the first character of s that is not part of the exponent
\* (a leading '-', digits, '_'); Len(s)+1 when there is none.
ExpEnd(s) ==
    LET idx == { i \in 1..Len(s) :
                   ~((i = 1 /\ s[i] = Ch.MINUS) \/ IsDecDigit(s[i]) \/ s[i] = Ch.UNDERSCORE) }
    IN IF idx = {} THEN Len(s) + 1 ELSE CHOOSE i \in idx : \A j \in idx : i <= j

\* FloatToken::from_text_radix.  The f64 value is held exactly, as
\* <<radix, integer part, fraction digits as a number, number of fraction
\* digits, exponent>>: value = (int + frac / radix^nfrac) * radix^exp.
FloatToken_from_text_radix(txt, pos) ==
    LET bad == Err("InvalidFloatToken", pos)
        Done(radix, a, b, exp, left) ==
            Tok("Float", "", TRUE, <<radix, a.value, b.frac, b.j - 1, exp>>, 0,
                Prefix(txt, ByteLen(txt) - ByteLen(left)), pos)
        \* rest is what follows "#e", n the char index where the exponent ends
        Exponent(radix, a, b, rest, n, e) ==
            IF ~e.ok THEN bad
            ELSE Done(radix, a, b, IF e.neg THEN 0 - e.n ELSE e.n, From(rest, n))
        ExponentOf(radix, a, b, rest, n) ==
            Exponent(radix, a, b, rest, n, parse_digits(Sub(rest, 1, n - 1), TRUE))
        Fraction(radix, s, a, b) ==
            IF ~b.prev THEN bad
            ELSE IF b.has_exp
            THEN IF ~(b.next <= Len(s) /\ s[b.next] = 101 (* e *)) THEN bad
                 ELSE ExponentOf(radix, a, b, From(s, b.next + 1), ExpEnd(From(s, b.next + 1)))
            ELSE Done(radix, a, b, 0, From(s, b.next))
        IntegerPart(radix, s, a) ==
            IF a.failed THEN bad
            ELSE IF ~a.prev \/ a.next > Len(s) THEN bad
            ELSE Fraction(radix, s, a,
                          RadixFracLoop(s, a.next, radix,
                            [frac |-> 0, j |-> 1, prev |-> FALSE, has_exp |-> FALSE,
                             next |-> 0]))
        Radix(r, s) ==
            IF ~r.ok THEN bad
            ELSE IF ~(1 < r.n /\ r.n < 37) THEN bad
            ELSE IF s = <<>> THEN bad
            ELSE IntegerPart(r.n, s,
                             RadixIntLoop(s, 1, r.n,
                               [value |-> 0, prev |-> FALSE, next |-> 0, failed |-> FALSE]))
        Split(i) == Radix(parse_digits(Sub(txt, 1, i - 1), FALSE), From(txt, i + 1))
    IN Split(Find(txt, Ch.SHARP))

\* FloatToken::from_text.  The value of a decimal float is buf.parse(): it
\* is held as buf, the digits with '.', 'e' and the sign, which f64's parser
\* always accepts.
FloatToken_from_text(txt, pos) ==
    IF is_based(txt) THEN FloatToken_from_text_radix(txt, pos)
    ELSE LET bad == Err("InvalidFloatToken", pos)
             Done(c) ==
                IF ~c.ok THEN bad
                ELSE Tok("Float", "", FALSE, c.buf, 0,
                         Prefix(txt, IF c.next <= Len(txt) THEN ByteIdx(txt, c.next)
                                     ELSE ByteLen(txt)),
                         pos)
             \* the exponent's digits, required once an 'e' was read
             Digits(k, buf, has_e) ==
                Done(IF has_e THEN read_digits(txt, k, buf)
                     ELSE [ok |-> TRUE, buf |-> buf, next |-> k])
             Sign(k, buf, has_e) ==
                IF has_e /\ k <= Len(txt) /\ txt[k] \in {Ch.PLUS, Ch.MINUS}
                THEN Digits(k + 1, Append(buf, txt[k]), has_e)
                ELSE Digits(k, buf, has_e)
             Fraction(b) ==
                IF ~b.ok THEN bad
                ELSE IF b.next <= Len(txt) /\ txt[b.next] \in {101, 69}   \* e E
                THEN Sign(b.next + 1, Append(b.buf, txt[b.next]), TRUE)
                ELSE Sign(b.next, b.buf, FALSE)
             IntegerPart(a) ==
                IF ~a.ok THEN bad
                ELSE IF ~(a.next <= Len(txt) /\ txt[a.next] = Ch.DOT) THEN bad
                ELSE Fraction(read_digits(txt, a.next + 1, Append(a.buf, Ch.DOT)))
         IN IntegerPart(read_digits(txt, 1, <<>>))

RECURSIVE CountLeading(_, _, _)
\* Number of leading characters c of s, from char index k.
CountLeading(s, c, k) ==
    IF k <= Len(s) /\ s[k] = c THEN 1 + CountLeading(s, c, k + 1) ELSE 0

RECURSIVE StartLineLoop(_, _, _)
\* The `for c in chars` loop of parse_triple_quoted that reads the rest of
\* the opening line, from char index k: start_line_end, whether the '\n'
\* was found, and whether a non-whitespace character was met.
StartLineLoop(txt, k, start_line_end) ==
    IF k > Len(txt) THEN [end |-> start_line_end, found |-> FALSE, bad |-> FALSE]
    ELSE LET c == txt[k]
             e == start_line_end + len_utf8(c)
         IN IF c = Ch.LF THEN [end |-> e, found |-> TRUE, bad |-> FALSE]
            ELSE IF ~is_ascii_whitespace(c) THEN [end |-> e, found |-> FALSE, bad |-> TRUE]
            ELSE StartLineLoop(txt, k + 1, e)

RECURSIVE EndLineLoop(_, _, _, _)
\* The loop of parse_triple_quoted that looks for the closing line, over
\* txt from char index k.
EndLineLoop(txt, k, quote_count, st) ==
    IF k > Len(txt) THEN st
    ELSE LET c == txt[k]
             e == st.end_line_end + len_utf8(c)
         IN IF c = Ch.LF
            THEN EndLineLoop(txt, k + 1, quote_count,
                   [indent |-> 0, maybe_end_line |-> TRUE,
                    remaining_quote_count |-> quote_count,
                    end_line_start |-> e, end_line_end |-> e])
            ELSE IF is_ascii_whitespace(c)
            THEN EndLineLoop(txt, k + 1, quote_count,
                   [st EXCEPT !.indent = @ + 1, !.end_line_end = e])
            ELSE IF st.maybe_end_line /\ c = Ch.DQ
            THEN IF st.remaining_quote_count - 1 = 0
                 THEN [st EXCEPT !.remaining_quote_count = 0, !.end_line_end = e]
                 ELSE EndLineLoop(txt, k + 1, quote_count,
                        [st EXCEPT !.remaining_quote_count = @ - 1, !.end_line_end = e])
            ELSE EndLineLoop(txt, k + 1, quote_count,
                   [st EXCEPT !.maybe_end_line = FALSE, !.end_line_end = e])

RECURSIVE lines(_)
\* str::lines: the lines of s without their '\n' (and without the '\r' of a
\* "\r\n"); a final line need not end in '\n'.
lines(s) ==
    IF s = <<>> THEN <<>>
    ELSE LET i == Find(s, Ch.LF)
         IN IF i = 0 THEN <<s>>
            ELSE LET l == Sub(s, 1, i - 1)
                     l2 == IF l # <<>> /\ l[Len(l)] = Ch.CR THEN Sub(l, 1, Len(l) - 1) ELSE l
                 IN <<l2>> \o lines(From(s, i + 1))

RECURSIVE StripLine(_, _, _, _)
\* The `for (i, c) in line.chars().enumerate()` loop of parse_triple_quoted,
\* from char index k (i = k - 1): the characters pushed, or bad.
StripLine(line, k, indent, out) ==
    IF k > Len(line) THEN [bad |-> FALSE, out |-> out]
    ELSE IF k - 1 < indent
    THEN IF is_ascii_whitespace(line[k]) THEN StripLine(line, k + 1, indent, out)
         ELSE [bad |-> TRUE, out |-> out]
    ELSE StripLine(line, k + 1, indent, Append(out, line[k]))

RECURSIVE StripLines(_, _, _, _)
\* The `for line in ....lines()` loop of parse_triple_quoted from line n.
StripLines(ls, n, indent, value) ==
    IF n > Len(ls) THEN [bad |-> FALSE, value |-> value]
    ELSE IF ls[n] = <<Ch.LF>> THEN StripLines(ls, n + 1, indent, Append(value, Ch.LF))
    ELSE LET Line(r) ==
                IF r.bad THEN [bad |-> TRUE, value |-> value]
                ELSE IF r.out = <<>> THEN [bad |-> TRUE, value |-> value]   \* !valid_line
                ELSE StripLines(ls, n + 1, indent, value \o r.out)
         IN Line(StripLine(ls[n], 1, indent, <<>>))

\* What parse_triple_quoted and the quotation branch hand to from_text: the
\* value, the byte index `end`, or an error or a panic in `err`.
StrOk(str, owned, end) == [ok |-> TRUE, str |-> str, owned |-> owned, end |-> end, err |-> Err("", PositionNew)]
StrFail(e) == [ok |-> FALSE, str |-> <<>>, owned |-> FALSE, end |-> 0, err |-> e]

\* StringToken::parse_triple_quoted
parse_triple_quoted(txt, pos) ==
    LET Stripped(r, end_line_end) ==
            IF r.bad THEN StrFail(Err("InvalidStringToken", pos))
            ELSE StrOk(r.value, TRUE, end_line_end)
        Closed(start_line_end, b) ==
            IF b.remaining_quote_count # 0 THEN StrFail(Err("NoClosingQuotation", pos))
            ELSE IF b.indent = 0
            THEN LET hi == IF b.end_line_start - 1 > start_line_end
                           THEN b.end_line_start - 1 ELSE start_line_end
                 IN IF ~SliceOk(txt, start_line_end, hi) THEN StrFail(Panic("slice"))
                    ELSE StrOk(Slice(txt, start_line_end, hi), TRUE, b.end_line_end)
            ELSE IF ~SliceOk(txt, start_line_end, b.end_line_start - 1)
            THEN StrFail(Panic("slice"))
            ELSE Stripped(StripLines(lines(Slice(txt, start_line_end, b.end_line_start - 1)),
                                     1, b.indent, <<>>),
                          b.end_line_end)
        Opened(quote_count, a) ==
            IF a.bad THEN StrFail(Err("InvalidStringToken", pos))
            ELSE IF ~a.found THEN StrFail(Err("NoClosingQuotation", pos))
            ELSE Closed(a.end,
                        EndLineLoop(txt, CharsBefore(txt, a.end) + 1, quote_count,
                          [indent |-> 0, maybe_end_line |-> TRUE,
                           remaining_quote_count |-> quote_count,
                           end_line_start |-> a.end, end_line_end |-> a.end]))
        Counted(quote_count) ==
            Opened(quote_count, StartLineLoop(txt, quote_count + 1, quote_count))
    IN Counted(CountLeading(txt, Ch.DQ, 1))

\* A recognizer without the test for a quote after the closing one: the
\* adjacent literal rule tells it from StringToken_from_text.
StringToken_from_text_concatenating(txt, pos) ==
    IF txt = <<>> THEN Err("InvalidStringToken", pos)
    ELSE LET Quoted(q) == IF ~q.ok THEN StrFail(q.err) ELSE StrOk(q.str, q.owned, q.end + 2)
             Parsed(r) ==
                IF ~r.ok THEN r.err
                ELSE Tok("String", "", r.owned, IF r.owned THEN r.str ELSE <<>>, 0,
                         Prefix(txt, r.end), pos)
         IN Parsed(IF Len(txt) >= 3 /\ Sub(txt, 1, 3) = <<Ch.DQ, Ch.DQ, Ch.DQ>>
                   THEN parse_triple_quoted(txt, pos)
                   ELSE IF CharsBefore(txt, 1) < 0 THEN StrFail(Panic("split_at"))
                   ELSE IF txt[1] # Ch.DQ THEN StrFail(Err("InvalidStringToken", pos))
                   ELSE Quoted(parse_quotation(pos, From(txt, 2), Ch.DQ)))

\* StringToken::from_text
StringToken_from_text(txt, pos) ==
    IF txt = <<>> THEN Err("InvalidStringToken", pos)
    ELSE LET Quoted(q) == IF ~q.ok THEN StrFail(q.err) ELSE StrOk(q.str, q.owned, q.end + 2)
             Parsed(r) ==
                IF ~r.ok THEN r.err
                ELSE IF r.end < ByteLen(txt) /\ txt[CharsBefore(txt, r.end) + 1] = Ch.DQ
                THEN Err("AdjacentStringLiterals", step_by_text(pos, Slice(txt, 0, r.end)))
                ELSE Tok("String", "", r.owned, IF r.owned THEN r.str ELSE <<>>, 0,
                         Prefix(txt, r.end), pos)
         IN Parsed(IF Len(txt) >= 3 /\ Sub(txt, 1, 3) = <<Ch.DQ, Ch.DQ, Ch.DQ>>
                   THEN parse_triple_quoted(txt, pos)
                   ELSE IF CharsBefore(txt, 1) < 0 THEN StrFail(Panic("split_at"))
                   ELSE IF txt[1] # Ch.DQ THEN StrFail(Err("InvalidStringToken", pos))
                   ELSE Quoted(parse_quotation(pos, From(txt, 2), Ch.DQ)))

\* StringToken::value: the owned value when there is one, else the text
\* without its first and last byte.
StringToken_value(t) ==
    IF t.some THEN t.str ELSE Slice(t.text, 1, ByteLen(t.text) - 1)

\* CharToken::value
CharToken_value(t) == t.num

\* A pairing in which every opening delimiter closes with itself.
CloseDelimiter_same(open) ==
    IF open \in {Ch.LPAREN, Ch.LBRACKET, Ch.LBRACE, Ch.LT, Ch.SLASH, Ch.BAR, Ch.SQ,
                 Ch.BACKQUOTE, Ch.SHARP}
    THEN open ELSE 0

\* The closing delimiter SigilStringToken::from_text pairs with an opening
\* one; 0 for the arm that returns Error::invalid_sigil_string_token.
CloseDelimiter(open) ==
    CASE open = Ch.LPAREN -> Ch.RPAREN
      [] open = Ch.LBRACKET -> Ch.RBRACKET
      [] open = Ch.LBRACE -> Ch.RBRACE
      [] open = Ch.LT -> Ch.GT
      [] open \in {Ch.SLASH, Ch.BAR, Ch.SQ, Ch.BACKQUOTE, Ch.SHARP} -> open
      [] OTHER -> 0

\* take_while(is_atom_non_head_char) on s from char index k.
TakeAtomNonHead(s, k) ==
    LET i == FirstNotAtomNonHead(s, k)
    IN IF i = 0 THEN From(s, k) ELSE Sub(s, k, i - 1)

\* SigilStringToken::from_text.  The value (prefix, content, suffix) is held
\* in str as the three strings.
SigilStringToken_from_text(txt, pos) ==
    IF txt = <<>> \/ txt[1] # Ch.TILDE THEN Err("InvalidSigilStringToken", pos)
    ELSE LET Content(ok, err, content, offset) ==
                [ok |-> ok, err |-> err, content |-> content, offset |-> offset]
             Failed(e) == Content(FALSE, e, <<>>, 0)
             OfString(t, offset) ==
                IF ~IsTok(t) THEN Failed(t)
                ELSE Content(TRUE, t,
                             IF t.some THEN t.str ELSE Slice(t.text, 1, ByteLen(t.text) - 1),
                             offset + ByteLen(t.text))
             OfQuotation(q, offset) ==
                IF ~q.ok THEN Failed(q.err)
                ELSE Content(TRUE, q.err, q.str, offset + 1 + q.end + 1)
             Finish(prefix, c, suffix) ==
                Tok("SigilString", "", TRUE, <<prefix, c.content, suffix>>, 0,
                    Slice(txt, 0, c.offset + ByteLen(suffix)), pos)
             Suffixed(prefix, c) ==
                IF ~c.ok THEN c.err
                ELSE Finish(prefix, c, TakeAtomNonHead(txt, CharsBefore(txt, c.offset) + 1))
             \* k is the char index of the opening delimiter
             Opened(prefix, offset, k) ==
                IF k > Len(txt) THEN Err("InvalidSigilStringToken", pos)
                ELSE Suffixed(prefix,
                       IF txt[k] = Ch.DQ
                       THEN OfString(StringToken_from_text(From(txt, k),
                                                           step_by_width(pos, offset)),
                                     offset)
                       ELSE IF CloseDelimiter(txt[k]) = 0
                       THEN Failed(Err("InvalidSigilStringToken", pos))
                       ELSE OfQuotation(parse_quotation(pos, From(txt, k + 1),
                                                        CloseDelimiter(txt[k])),
                                        offset))
             Prefixed(prefix) == Opened(prefix, 1 + ByteLen(prefix), 2 + Len(prefix))
         IN Prefixed(TakeAtomNonHead(txt, 2))

-----------------------------------------------------------------------------
(* token.rs: the Token enum *)

\* Token::text: the per-kind text(); keyword, symbol and whitespace tokens
\* hold their enum value and answer with its as_str().
TokenText(t) ==
    CASE t.kind = "Keyword" -> KeywordAsStr(t.enum)
      [] t.kind = "Symbol" -> SymbolAsStr(t.enum)
      [] t.kind = "Whitespace" -> WhitespaceAsStr(t.enum)
      [] OTHER -> t.text

\* Token::start_position
start_position(t) == t.pos

\* Token::end_position: the per-kind PositionRange::end_position.
end_position(t) ==
    CASE t.kind = "Atom" ->
           IF ~t.some THEN step_by_width(t.pos, ByteLen(t.text))
           ELSE step_by_text(t.pos, t.text)
      [] t.kind \in {"Char", "String", "SigilString"} -> step_by_text(t.pos, t.text)
      [] t.kind = "Whitespace" -> step_by_text(t.pos, WhitespaceAsStr(t.enum))
      [] OTHER -> step_by_width(t.pos, ByteLen(TokenText(t)))

\* The `maybe_float` test of Token::from_text: the first character that is
\* not a decimal digit is a '.' and the byte after it is a decimal digit.
maybe_float(txt) ==
    LET idx == { i \in 1..Len(txt) : ~IsDecDigit(txt[i]) }
    IN IF idx = {} THEN FALSE
       ELSE LET i == CHOOSE i \in idx : \A j \in idx : i <= j
            IN txt[i] = Ch.DOT /\ i + 1 <= Len(txt) /\ IsDecDigit(txt[i + 1])

\* A dispatch that hands on the keyword lookup's answer for every atom.
Token_from_text_propagating(txt, pos) ==
    IF txt = <<>> THEN Err("UnknownKeyword", pos)
    ELSE IF is_alphabetic(txt[1]) /\ ~IsUpperAscii(txt[1])
    THEN KeywordToken_from_text(txt, pos)
    ELSE AtomToken_from_text(txt, pos)

\* Token::from_text
Token_from_text(txt, pos) ==
    IF txt = <<>> THEN Err("UnexpectedEos", pos)
    ELSE LET head == txt[1] IN
         CASE head \in {Ch.SP, Ch.TAB, Ch.CR, Ch.LF, Ch.NBSP} -> WhitespaceToken_from_text(txt, pos)
           [] IsUpperAscii(head) \/ head = Ch.UNDERSCORE -> VariableToken_from_text(txt, pos)
           [] IsDecDigit(head) ->
                IF maybe_float(txt) THEN FloatToken_from_text(txt, pos)
                ELSE IntegerToken_from_text(txt, pos)
           [] head = Ch.DOLLAR -> CharToken_from_text(txt, pos)
           [] head = Ch.DQ -> StringToken_from_text(txt, pos)
           [] head = Ch.SQ -> AtomToken_from_text(txt, pos)
           [] head = Ch.PERCENT -> CommentToken_from_text(txt, pos)
           [] OTHER ->
                IF is_alphabetic(head)
                THEN LET Reclassify(atom, keyword) ==
                           IF IsTok(keyword) THEN keyword ELSE atom
                         OfAtom(atom) ==
                           IF ~IsTok(atom) THEN atom
                           ELSE Reclassify(atom, KeywordToken_from_text(atom.text, pos))
                     IN OfAtom(AtomToken_from_text(txt, pos))
                ELSE SymbolToken_from_text(txt, pos)

-----------------------------------------------------------------------------
(* The inputs *)

\* Length up to which every text over Alphabet is an input.
MaxLen == 2

\* The characters short inputs are built from: a i f A 1 . " ' \n space
\* = : $ \ % and the two-byte letters U+00C9 and U+00E9.
Alphabet ==
    {97, 105, 102, 65, 49, Ch.DOT, Ch.DQ, Ch.SQ, Ch.LF, Ch.SP, Ch.EQ, Ch.COLON,
     Ch.DOLLAR, Ch.BACKSLASH, Ch.PERCENT, 201, 233}

\* Every text over Alphabet of length at most n.
Strings(n) == UNION { [1..k -> Alphabet] : k \in 0..n }

\* Longer inputs: keywords, atoms that look like them, and multibyte atoms.
SeedsKeyword ==
    {<<105, 102>>,   \* if
     <<111, 102>>,   \* of
     <<97, 110, 100>>,   \* and
     <<97, 110, 100, 97, 108, 115, 111>>,   \* andalso
     <<97, 110, 100, 102, 111, 111>>,   \* andfoo
     <<105, 102, 64>>,   \* if@
     <<39, 105, 102, 39>>,   \* 'if'
     <<109, 97, 121, 98, 101>>,   \* maybe
     <<101, 108, 115, 101>>,   \* else
     <<105, 102, 32, 97>>,   \* if a
     <<111, 114, 40>>,   \* or(
     <<97, 110, 100, 102, 111, 111, 32, 39, 105, 102, 39, 32, 105, 102>>,   \* andfoo 'if' if
     <<233>>,   \* é
     <<97, 233>>,   \* aé
     <<24212>>,   \* 应
     <<97, 24212>>,   \* a应
     <<201, 97>>,   \* Éa
     <<233, 49, 32, 201>>}   \* é1 É

\* Longer inputs: every spelling of the symbol table, and extensions of them.
SeedsSymbol ==
    {<<61, 58, 61>>,   \* =:=
     <<61, 47, 61>>,   \* =/=
     <<46, 46, 46>>,   \* ...
     <<60, 58, 45>>,   \* <:-
     <<60, 58, 61>>,   \* <:=
     <<58, 58>>,   \* ::
     <<58, 61>>,   \* :=
     <<124, 124>>,   \* ||
     <<45, 45>>,   \* --
     <<43, 43>>,   \* ++
     <<45, 62>>,   \* ->
     <<60, 45>>,   \* <-
     <<61, 62>>,   \* =>
     <<60, 61>>,   \* <=
     <<62, 62>>,   \* >>
     <<60, 60>>,   \* <<
     <<61, 61>>,   \* ==
     <<47, 61>>,   \* /=
     <<62, 61>>,   \* >=
     <<61, 60>>,   \* =<
     <<63, 63>>,   \* ??
     <<63, 61>>,   \* ?=
     <<46, 46>>,   \* ..
     <<38, 38>>,   \* &&
     <<91>>,   \* [
     <<93>>,   \* ]
     <<40>>,   \* (
     <<41>>,   \* )
     <<123>>,   \* {
     <<125>>,   \* }
     <<35>>,   \* #
     <<47>>,   \* /
     <<46>>,   \* .
     <<44>>,   \* ,
     <<58>>,   \* :
     <<59>>,   \* ;
     <<61>>,   \* =
     <<124>>,   \* |
     <<63>>,   \* ?
     <<33>>,   \* !
     <<45>>,   \* -
     <<43>>,   \* +
     <<42>>,   \* *
     <<62>>,   \* >
     <<60>>,   \* <
     <<38>>,   \* &
     <<61, 58>>,   \* =:
     <<61, 47>>,   \* =/
     <<60, 58>>,   \* <:
     <<61, 58, 61, 58>>,   \* =:=:
     <<45, 45, 62>>,   \* -->
     <<124, 124, 124>>,   \* |||
     <<38, 38, 38>>,   \* &&&
     <<64>>,   \* @
     <<94>>,   \* ^
     <<126>>}   \* ~

\* Longer inputs: quoted and triple-quoted strings, quoted atoms, characters, comments.
SeedsString ==
    {<<34, 34, 34, 10, 32, 34, 34, 34>>,   \* """\n """
     <<34, 34, 34, 10, 34, 34, 34>>,   \* """\n"""
     <<34, 34, 34, 10, 97, 10, 34, 34, 34>>,   \* """\na\n"""
     <<34, 34, 34, 10, 32, 97, 10, 32, 34, 34, 34>>,   \* """\n a\n """
     <<34, 34, 34, 10, 32, 97, 10, 10, 32, 34, 34, 34>>,   \* """\n a\n\n """
     <<34, 34, 34, 10, 32, 97, 10, 98, 10, 32, 34, 34, 34>>,   \* """\n a\nb\n """
     <<34, 34, 34, 34, 32, 10, 34, 97, 10, 34, 34, 34, 34>>,   \* """" \n"a\n""""
     <<34, 34, 34, 10, 34, 32, 34, 34>>,   \* """\n" ""
     <<34, 34, 34, 97>>,   \* """a
     <<34, 34, 34, 10>>,   \* """\n
     <<34, 97, 34, 34, 98, 34>>,   \* "a""b"
     <<34, 97, 34, 32, 34, 98, 34>>,   \* "a" "b"
     <<34, 97, 92, 110, 98, 34>>,   \* "a\nb"
     <<34, 97, 10, 98, 34>>,   \* "a\nb"
     <<34, 92, 120, 43, 52, 34>>,   \* "\x+4"
     <<34, 233, 34>>,   \* "é"
     <<39, 97, 10, 98, 39>>,   \* 'a\nb'
     <<39, 97, 92, 39, 98, 39>>,   \* 'a\'b'
     <<36, 92, 94, 97>>,   \* $\^a
     <<36, 10>>,   \* $\n
     <<36, 233>>,   \* $é
     <<36, 92>>,   \* $\
     <<37, 99, 10, 120>>,   \* %c\nx
     <<37, 233>>,   \* %é
     <<126, 97, 40, 98, 41, 99>>}   \* ~a(b)c

\* Longer inputs: integers and floats.
SeedsNumber ==
    {<<49, 95, 54, 35, 97, 98, 48, 101>>,   \* 1_6#ab0e
     <<50, 35, 48, 46, 49, 48, 49, 48, 49, 35, 101, 56>>,   \* 2#0.10101#e8
     <<49, 46, 48>>,   \* 1.0
     <<49, 46>>,   \* 1.
     <<49, 46, 97>>,   \* 1.a
     <<49, 50, 46, 53, 101, 45, 51>>,   \* 12.5e-3
     <<49, 95, 48, 46, 48>>,   \* 1_0.0
     <<49, 54, 35, 102, 102>>,   \* 16#ff
     <<51, 55, 35, 49>>,   \* 37#1
     <<49, 35, 48>>,   \* 1#0
     <<49, 95, 95, 48>>,   \* 1__0
     <<49, 101, 51>>,   \* 1e3
     <<49, 46, 48, 101>>,   \* 1.0e
     <<49, 48, 32>>}   \* 10 

\* Longer inputs: short programs, among them the ones the tests tokenize.
SeedsProgram ==
    {<<105, 111, 58, 102, 111, 114, 109, 97, 116, 40, 34, 72, 101, 108, 108, 111, 34, 41, 46, 10>>,   \* io:format("Hello").\n
     <<45, 109, 111, 100, 117, 108, 101, 40, 102, 111, 111, 41, 46, 10>>,   \* -module(foo).\n
     <<160, 97, 10, 9, 66>>,   \* \u{a0}a\n\tB
     <<65, 32, 61, 32, 34, 120, 34, 44, 10, 66>>,   \* A = "x",\nB
     <<97, 32, 201, 32, 98>>,   \* a É b
     <<120, 32, 34, 34, 34, 10, 24212, 10, 34, 34, 46>>,   \* x """\n应\n"".
     <<102, 111, 111, 40, 65, 41, 32, 45, 62, 32, 49, 46, 53, 46>>}   \* foo(A) -> 1.5.

\* Longer inputs: triple-quoted strings, indented and not, and other strings.
SeedsTripleQuoted ==
    {<<34, 34, 34, 10, 32, 97, 10, 32, 98, 10, 32, 34, 34, 34>>,   \* """\n a\n b\n """
     <<34, 34, 34, 10, 97, 10, 98, 10, 34, 34, 34>>,   \* """\na\nb\n"""
     <<34, 34, 34, 10, 32, 32, 97, 10, 32, 32, 98, 10, 32, 32, 34, 34, 34>>,   \* """\n  a\n  b\n  """
     <<34, 34, 34, 10, 10, 34, 34, 34>>,   \* """\n\n"""
     <<34, 34, 34, 10, 10, 10, 34, 34, 34>>,   \* """\n\n\n"""
     <<34, 34, 34, 10, 32, 97, 92, 110, 10, 32, 34, 34, 34>>,   \* """\n a\n\n """
     <<34, 34, 34, 10, 32, 32, 97, 10, 32, 98, 10, 32, 34, 34, 34>>,   \* """\n  a\n b\n """
     <<34, 34, 34, 10, 32, 97, 10, 32, 34, 34, 34, 34>>,   \* """\n a\n """"
     <<34, 34, 34, 10, 97, 10, 34, 34, 34, 34>>,   \* """\na\n""""
     <<34, 34, 34, 97, 34, 34, 34>>,   \* """a"""
     <<34, 34, 34>>,   \* """
     <<34, 97, 92, 34>>,   \* "a\"
     <<34, 97, 98, 34, 32, 120>>,   \* "ab" x
     <<36, 97, 32, 98>>,   \* $a b
     <<36, 34>>,   \* $"
     <<34, 97, 34>>,   \* "a"
     <<34, 34>>,   \* ""
     <<34, 34, 34, 34, 32, 10, 32, 97, 34, 10, 32, 34, 34, 34, 34>>}   \* """" \n a"\n """"

\* Longer inputs: texts with characters of two, three and four bytes.
SeedsMultibyte ==
    {<<128512>>,   \* 😀
     <<97, 10, 233>>,   \* a\né
     <<233, 10, 128512, 98>>,   \* é\n😀b
     <<10, 10>>,   \* \n\n
     <<24212, 35813, 10>>,   \* 应该\n
     <<97, 128512>>}   \* a😀

\* Longer inputs: radix integers and radix floats, well formed and not.
SeedsRadix ==
    {<<50, 35, 48, 46, 49, 49, 49>>,   \* 2#0.111
     <<49, 95, 54, 35, 102, 46, 102, 32, 120>>,   \* 1_6#f.f x
     <<50, 35, 48, 46, 49, 48, 49, 48, 49, 35, 101, 56, 32>>,   \* 2#0.10101#e8 
     <<51, 95, 54, 35, 122, 95, 90, 46>>,   \* 3_6#z_Z.
     <<49, 95, 54, 35, 97, 98, 48, 101, 44>>,   \* 1_6#ab0e,
     <<49, 54, 35, 102, 103>>,   \* 16#fg
     <<50, 35, 49, 48, 50>>,   \* 2#102
     <<51, 54, 35, 122, 122>>,   \* 36#zz
     <<48, 35, 49>>,   \* 0#1
     <<49, 35, 49>>,   \* 1#1
     <<52, 48, 35, 49>>,   \* 40#1
     <<49, 95, 35, 48>>,   \* 1_#0
     <<49, 54, 35, 95, 102>>,   \* 16#_f
     <<49, 54, 35>>,   \* 16#
     <<49, 54, 35, 103>>,   \* 16#g
     <<49, 54, 35, 102, 95>>,   \* 16#f_
     <<49, 54, 35, 102, 95, 95, 48>>,   \* 16#f__0
     <<49, 95, 32>>,   \* 1_ 
     <<49, 95, 97>>,   \* 1_a
     <<97, 32, 49, 95>>,   \* a 1_
     <<49, 95, 48, 32, 49, 54, 35, 102, 95, 102, 46>>,   \* 1_0 16#f_f.
     <<49, 95, 48>>,   \* 1_0
     <<49, 48, 35, 49, 95, 48, 35, 50>>,   \* 10#1_0#2
     <<50, 35, 49, 35>>,   \* 2#1#
     <<48, 49, 54, 35, 49, 102>>,   \* 016#1f
     <<49, 95, 48, 46, 48>>,   \* 1_0.0
     <<49, 95, 46, 53>>,   \* 1_.5
     <<50, 35, 49, 46>>,   \* 2#1.
     <<50, 35, 46, 49>>,   \* 2#.1
     <<49, 95, 54, 35, 102, 101, 102, 101, 46, 102, 101, 102, 101, 35, 101, 49, 95, 54>>,   \* 1_6#fefe.fefe#e1_6
     <<50, 35, 49, 46, 49, 35, 101, 45, 49>>,   \* 2#1.1#e-1
     <<50, 35, 49, 46, 49, 35, 102>>,   \* 2#1.1#f
     <<50, 35, 49, 46, 49, 35, 101>>,   \* 2#1.1#e
     <<120, 32, 49, 95, 54, 35, 102, 95, 32, 121>>,   \* x 1_6#f_ y
     <<65, 61, 49, 54, 35, 44>>}   \* A=16#,

\* Longer inputs: sigil strings with each opening delimiter, with and without prefix, suffix and following text.
SeedsSigil ==
    {<<126, 34, 34>>,   \* ~""
     <<126, 97, 91, 98, 93, 99>>,   \* ~a[b]c
     <<126, 97, 123, 98, 125, 99>>,   \* ~a{b}c
     <<126, 97, 60, 98, 62, 99>>,   \* ~a<b>c
     <<126, 97, 47, 98, 47, 99>>,   \* ~a/b/c
     <<126, 97, 124, 98, 124, 99>>,   \* ~a|b|c
     <<126, 97, 39, 98, 39, 99>>,   \* ~a'b'c
     <<126, 97, 34, 98, 34, 99>>,   \* ~a"b"c
     <<126, 97, 96, 98, 96, 99>>,   \* ~a`b`c
     <<126, 97, 35, 98, 35, 99>>,   \* ~a#b#c
     <<126, 97, 34, 34, 34, 10, 32, 32, 32, 32, 98, 10, 32, 32, 32, 32, 34, 34, 34, 99>>,   \* ~a"""\n    b\n    """c
     <<126, 97, 96, 98, 96, 99, 32, 49, 48>>,   \* ~a`b`c 10
     <<126, 97, 40, 98, 41, 99, 32, 49, 48>>,   \* ~a(b)c 10
     <<126, 34, 102, 111, 111, 34>>,   \* ~"foo"
     <<126, 40, 102, 111, 111, 41>>,   \* ~(foo)
     <<126, 98, 34, 102, 111, 111, 34, 32, 32>>,   \* ~b"foo"  
     <<126, 97>>,   \* ~a
     <<126, 97, 32, 98>>,   \* ~a b
     <<126, 97, 33, 98, 33>>,   \* ~a!b!
     <<126, 40, 98>>,   \* ~(b
     <<126, 97, 40, 98>>,   \* ~a(b
     <<126, 233, 91, 98, 10, 99, 93, 233, 46>>,   \* ~é[b\nc]é.
     <<126, 115, 123, 97, 40, 98, 41, 125, 99>>,   \* ~s{a(b)}c
     <<126, 97, 60, 98, 62, 62, 99>>,   \* ~a<b>>c
     <<126, 34, 97, 34, 34, 98, 34>>,   \* ~"a""b"
     <<126, 97, 40, 98, 32, 99, 41, 100, 40, 101, 41>>,   \* ~a(b c)d(e)
     <<126, 49, 95, 64, 40, 120, 41, 64, 95, 49, 44>>,   \* ~1_@(x)@_1,
     <<126, 40, 41>>,   \* ~()
     <<126, 97, 34, 98>>}   \* ~a"b

\* Longer inputs: floats with separators and exponents, decimal and radix, and near misses.
SeedsFloat ==
    {<<49, 46, 50, 95, 51, 101, 43, 49, 95, 48>>,   \* 1.2_3e+1_0
     <<49, 48, 32, 49, 95, 50, 95, 51, 32, 49, 95, 54, 35, 49, 48, 32, 49, 46, 48, 50>>,   \* 10 1_2_3 1_6#10 1.02
     <<49, 95, 50, 46, 53>>,   \* 1_2.5
     <<49, 95, 46, 48>>,   \* 1_.0
     <<49, 50, 95, 51, 46, 52, 101, 49>>,   \* 12_3.4e1
     <<49, 46, 50, 32>>,   \* 1.2 
     <<48, 46, 53>>,   \* 0.5
     <<49, 95, 48>>,   \* 1_0
     <<49, 46, 95, 48>>,   \* 1._0
     <<49, 46, 101, 51>>,   \* 1.e3
     <<50, 35, 49, 46, 49, 35, 101, 43, 49>>,   \* 2#1.1#e+1
     <<50, 35, 49, 46, 49, 35, 101, 45, 49>>,   \* 2#1.1#e-1
     <<50, 35, 49, 46, 49, 35, 101, 49>>,   \* 2#1.1#e1
     <<50, 35, 49, 46, 49, 35, 101, 43, 49, 95, 48>>,   \* 2#1.1#e+1_0
     <<51, 35, 48, 46, 50, 35, 101, 45, 49, 32, 120>>,   \* 3#0.2#e-1 x
     <<50, 35, 49, 46, 49, 35, 101>>,   \* 2#1.1#e
     <<50, 35, 49, 46, 49, 35, 101, 43>>,   \* 2#1.1#e+
     <<50, 35, 49, 46, 49, 35, 101, 95, 49>>,   \* 2#1.1#e_1
     <<50, 35, 49, 46, 49, 35, 101, 49, 95>>,   \* 2#1.1#e1_
     <<49, 54, 35, 102, 46, 56, 35, 101, 49>>,   \* 16#f.8#e1
     <<49, 95, 54, 35, 97, 46, 56, 35, 101, 45, 49, 44>>,   \* 1_6#a.8#e-1,
     <<50, 35, 49, 46, 48, 49, 35, 101, 43, 50>>,   \* 2#1.01#e+2
     <<50, 35, 49, 46, 49, 35, 101, 49, 95, 95, 48>>,   \* 2#1.1#e1__0
     <<50, 35, 49, 46, 49, 35, 101, 97>>,   \* 2#1.1#ea
     <<50, 35, 48, 46, 49>>}   \* 2#0.1

\* Longer inputs: octal, hexadecimal and control escapes in characters, strings, quoted atoms and sigil strings.
SeedsEscape ==
    {<<36, 92, 49, 48, 49>>,   \* $\101
     <<36, 92, 49, 50>>,   \* $\12
     <<36, 92, 55>>,   \* $\7
     <<36, 92, 51, 55, 55>>,   \* $\377
     <<36, 92, 49, 50, 51, 52>>,   \* $\1234
     <<36, 92, 49, 56>>,   \* $\18
     <<36, 92, 49, 49>>,   \* $\11
     <<36, 92, 49, 49, 49>>,   \* $\111
     <<36, 92, 48>>,   \* $\0
     <<36, 92, 48, 48, 120>>,   \* $\00x
     <<36, 92, 48, 53, 50, 32>>,   \* $\052 
     <<36, 92, 55, 97>>,   \* $\7a
     <<34, 92, 49, 48, 49, 34>>,   \* "\101"
     <<34, 92, 49, 50, 97, 34>>,   \* "\12a"
     <<39, 92, 49, 52, 49, 98, 39>>,   \* '\141b'
     <<36, 92, 120, 123, 52, 49>>,   \* $\x{41
     <<36, 92, 120, 123, 52, 49, 125>>,   \* $\x{41}
     <<36, 92, 120, 123, 52, 49, 32>>,   \* $\x{41 
     <<36, 92, 120, 123, 52, 49, 103>>,   \* $\x{41g
     <<34, 92, 120, 123, 52, 49, 34>>,   \* "\x{41"
     <<34, 92, 120, 123, 52, 49, 125, 34>>,   \* "\x{41}"
     <<34, 92, 120, 123, 52, 49, 34, 98>>,   \* "\x{41"b
     <<36, 92, 120, 123, 125>>,   \* $\x{}
     <<36, 92, 120, 123>>,   \* $\x{
     <<36, 92, 120, 123, 52>>,   \* $\x{4
     <<36, 92, 120, 123, 52, 49, 125, 98>>,   \* $\x{41}b
     <<34, 92, 120, 123, 52, 49, 34, 32, 34>>,   \* "\x{41" "
     <<36, 92, 120, 52, 49>>,   \* $\x41
     <<36, 92, 120, 52>>,   \* $\x4
     <<34, 97, 92, 120, 123, 54, 50, 99, 34>>,   \* "a\x{62c"
     <<126, 40, 92, 120, 123, 52, 49, 41>>,   \* ~(\x{41)
     <<34, 92, 34, 97, 34>>,   \* "\"a"
     <<34, 97, 92, 92, 34, 98, 34>>,   \* "a\\"b"
     <<34, 92, 94, 34, 97, 34>>,   \* "\^"a"
     <<34, 97, 92, 34>>,   \* "a\"
     <<34, 92, 120, 123, 52, 49, 125, 98, 34, 32, 99>>,   \* "\x{41}b" c
     <<34, 97, 92, 113, 98, 34>>,   \* "a\qb"
     <<39, 97, 92, 34, 98, 39, 99>>,   \* 'a\"b'c
     <<34, 92, 120, 34>>,   \* "\x"
     <<34, 97, 98, 92, 120, 123, 49, 49, 48, 48, 48, 48, 125, 34>>,   \* "ab\x{110000}"
     <<34, 97, 10, 98, 92, 120, 123, 49, 49, 48, 48, 48, 48, 125, 34>>,   \* "a\nb\x{110000}"
     <<39, 233, 92, 120, 123, 49, 49, 48, 48, 48, 48, 125, 39>>,   \* 'é\x{110000}'
     <<126, 233, 40, 10, 92, 120, 123, 49, 49, 48, 48, 48, 48, 125, 41>>,   \* ~é(\n\x{110000})
     <<126, 97, 40, 98, 92, 120, 123, 49, 49, 48, 48, 48, 48, 125, 41>>,   \* ~a(b\x{110000})
     <<34, 92, 120, 123, 100, 56, 48, 48, 125, 34, 32, 34>>,   \* "\x{d800}" "
     <<39, 92, 120, 103, 48, 39>>,   \* '\xg0'
     <<34, 34, 34, 10, 92, 120, 123, 49, 49, 48, 48, 48, 48, 125, 10, 34, 34, 34>>,   \* """\n\x{110000}\n"""
     <<126, 97, 98, 91, 99, 92>>,   \* ~ab[c\
     <<126, 40, 92>>,   \* ~(\
     <<34, 233, 92>>,   \* "é\
     <<34, 10, 92, 120, 123, 103, 125, 34>>,   \* "\n\x{g}"
     <<126, 34, 97, 92, 120, 123, 49, 49, 48, 48, 48, 48, 125, 34>>,   \* ~"a\x{110000}"
     <<126, 97, 34, 92, 120, 123, 103, 125, 34>>}   \* ~a"\x{g}"

\* Longer inputs: triple-quoted strings with empty content lines, with quotes inside content lines, and with broken closing lines.
SeedsLines ==
    {<<34, 34, 34, 10, 32, 97, 10, 10, 32, 98, 10, 32, 34, 34, 34>>,   \* """\n a\n\n b\n """
     <<34, 34, 34, 10, 10, 32, 97, 10, 32, 34, 34, 34>>,   \* """\n\n a\n """
     <<34, 34, 34, 10, 10, 32, 34, 34, 34>>,   \* """\n\n """
     <<34, 34, 34, 10, 32, 32, 97, 10, 32, 10, 32, 32, 98, 10, 32, 32, 34, 34, 34>>,   \* """\n  a\n \n  b\n  """
     <<34, 34, 34, 10, 32, 97, 10, 10, 10, 32, 98, 10, 32, 34, 34, 34>>,   \* """\n a\n\n\n b\n """
     <<34, 34, 34, 10, 32, 97, 10, 98, 10, 32, 34, 34, 34>>,   \* """\n a\nb\n """
     <<34, 34, 34, 10, 32, 97, 10, 32, 98, 10, 32, 32, 34, 34, 34>>,   \* """\n a\n b\n  """
     <<34, 34, 34, 10, 9, 97, 10, 10, 9, 34, 34, 34>>,   \* """\n\ta\n\n\t"""
     <<34, 34, 34, 10, 32, 97, 10, 32, 10, 32, 34, 34, 34>>,   \* """\n a\n \n """
     <<34, 34, 34, 10, 10, 10, 32, 34, 34, 34>>,   \* """\n\n\n """
     <<34, 34, 34, 10, 32, 97, 32, 98, 10, 32, 34, 34, 34, 32, 120>>,   \* """\n a b\n """ x
     <<34, 34, 34, 10, 97, 10, 34, 32, 34, 34>>,   \* """\na\n" ""
     <<34, 34, 34, 10, 97, 10, 34, 34, 32, 34, 10, 34, 34, 34>>,   \* """\na\n"" "\n"""
     <<34, 34, 34, 10, 97, 34, 34, 34, 10, 34, 34, 34>>,   \* """\na"""\n"""
     <<34, 34, 34, 10, 32, 97, 32, 34, 34, 34, 10, 32, 34, 34, 34>>,   \* """\n a """\n """
     <<34, 34, 34, 10, 97, 10, 34, 34, 10, 34, 34, 34>>,   \* """\na\n""\n"""
     <<34, 34, 34, 10, 34, 97, 34, 10, 34, 34, 34, 32, 120>>,   \* """\n"a"\n""" x
     <<34, 34, 34, 10, 97, 10, 34, 34, 34, 98>>,   \* """\na\n"""b
     <<34, 34, 34, 34, 10, 97, 10, 34, 34, 34, 10, 34, 34, 34, 34>>,   \* """"\na\n"""\n""""
     <<34, 34, 34, 34, 10, 34, 34, 34, 10, 34, 34, 34, 34>>,   \* """"\n"""\n""""
     <<34, 34, 34, 10, 34, 34, 10, 32, 32, 34, 34, 34>>,   \* """\n""\n  """
     <<34, 34, 34, 10, 32, 120, 10, 32, 9, 34, 34, 34, 32, 121>>,   \* """\n x\n \t""" y
     <<34, 34, 34, 10, 34, 34, 34, 32, 34>>,   \* """\n""" "
     <<34, 34, 34, 10, 120, 34, 10, 34, 34, 34>>,   \* """\nx"\n"""
     <<34, 34, 34, 10, 97, 10, 34, 9, 34, 34>>,   \* """\na\n"\t""
     <<34, 34, 34, 10, 97, 10, 34, 32, 34, 32, 34>>,   \* """\na\n" " "
     <<34, 34, 34, 34, 10, 97, 10, 34, 34, 32, 34, 34>>}   \* """"\na\n"" ""

\* Longer inputs: strings followed by a quote, and triple-quoted strings with a bad opening or closing line.
SeedsClosing ==
    {<<34, 34, 34, 10, 32, 120, 10, 34, 32, 34, 34>>,   \* """\n x\n" ""
     <<34, 34, 34, 10, 120, 10, 34, 32, 34, 34>>,   \* """\nx\n" ""
     <<34, 34, 34, 10, 120, 10, 34, 34, 32, 34>>,   \* """\nx\n"" "
     <<34, 34, 34, 10, 97, 10, 34, 34>>,   \* """\na\n""
     <<34, 34, 34, 10, 97, 10, 32, 34, 34, 120, 34>>,   \* """\na\n ""x"
     <<34, 34, 34, 32, 9, 10, 34, 34, 34>>,   \* """ \t\n"""
     <<34, 34, 34, 160, 10, 34, 34, 34>>,   \* """ \n"""
     <<34, 34, 34, 32, 120, 10, 34, 34, 34>>,   \* """ x\n"""
     <<34, 34, 34, 34, 10, 34, 34, 34>>,   \* """"\n"""
     <<34, 34, 34, 34, 34, 34>>,   \* """"""
     <<34, 34, 34, 10, 34, 34, 34, 34, 32, 120>>,   \* """\n"""" x
     <<97, 32, 34, 98, 34, 34, 99, 34>>,   \* a "b""c"
     <<34, 34, 34, 34, 10, 97, 10, 34, 34, 34, 34, 34>>,   \* """"\na\n"""""
     <<34, 97, 10, 98, 34, 34>>,   \* "a\nb""
     <<34, 97, 34, 39, 98, 39>>,   \* "a"'b'
     <<34, 34, 34, 10>>,   \* """\n
     <<34, 34, 34, 32>>}   \* """ 

Seeds ==
    SeedsKeyword \cup SeedsSymbol \cup SeedsString \cup SeedsNumber \cup SeedsProgram
    \cup SeedsTripleQuoted \cup SeedsMultibyte \cup SeedsRadix
    \cup SeedsClosing \cup SeedsSigil \cup SeedsFloat \cup SeedsEscape
    \cup SeedsLines

Inputs == Strings(MaxLen) \cup Seeds

-----------------------------------------------------------------------------
(* The Tokenizer: an owned input text and the cursor next_pos *)

\* What Iterator::next returns for a tokenizer over txt with cursor cur:
\* end of stream once the cursor offset has reached the length, else
\* Token::from_text on the rest of the text.  Taking the rest of the text
\* at a byte offset inside a character does not return.
next(txt, cur) ==
    IF cur.offset >= ByteLen(txt) THEN EndOfStream
    ELSE IF CharsBefore(txt, cur.offset) < 0 THEN Panic("boundary")
    ELSE Token_from_text(From(txt, CharsBefore(txt, cur.offset) + 1), cur)

\* A cursor that steps over the first byte when the pull fails: the failed
\* pull property tells it from cursor_after.
cursor_after_skipping(r, cur) ==
    IF IsTok(r) THEN end_position(r) ELSE step_by_width(cur, 1)

\* The cursor after Iterator::next returned r: the token's end position on
\* success, the cursor as it was otherwise.
cursor_after(r, cur) == IF IsTok(r) THEN end_position(r) ELSE cur

\* What consume_char returns: Some(c) for the character at the cursor (held
\* in num), None at the end of the text.
consume_char(txt, cur) ==
    IF cur.offset = ByteLen(txt) THEN EndOfStream
    ELSE IF CharsBefore(txt, cur.offset) < 0 THEN Panic("boundary")
    ELSE [tag |-> "Some", kind |-> "", enum |-> "", some |-> TRUE, str |-> <<>>,
          num |-> txt[CharsBefore(txt, cur.offset) + 1], text |-> <<>>, pos |-> cur]

\* A set_position that restores the offset and the column only:
\* repositioning tells it from set_position.
set_position_keeping_line(cur, p) == [p EXCEPT !.line = cur.line]

\* The cursor set_position(p) leaves, given the cursor before it.
set_position(cur, p) == p

\* The caller's note of a position: none taken yet ("none"), taken by
\* next_position ("taken"), the pull that followed gave res ("pulled"), the
\* cursor was set back to it ("restored"), the pull that followed that gave
\* again ("again").
NoSave == [st |-> "none", pos |-> PositionNew, res |-> EndOfStream, again |-> EndOfStream]

\* The thread has not aborted.
Alive == ~IsPanic(last)

\* Tokenizer::new(text)
Init ==
    /\ text \in Inputs
    /\ next_pos = PositionNew
    /\ last = EndOfStream
    /\ prev_pos = PositionNew
    /\ op = "new"
    /\ emitted = <<>>
    /\ clean = TRUE
    /\ saved = NoSave

\* Iterator::next
Pull ==
    /\ Alive
    /\ LET Returned(r, c) ==
               /\ last' = r
               /\ next_pos' = cursor_after(r, next_pos)
               /\ clean' = c
               /\ emitted' = IF ~c THEN <<>>
                             ELSE IF IsTok(r) THEN Append(emitted, r) ELSE emitted
               /\ saved' = CASE saved.st = "taken" ->
                                  [saved EXCEPT !.st = "pulled", !.res = r]
                             [] saved.st = "restored" ->
                                  [saved EXCEPT !.st = "again", !.again = r]
                             [] OTHER -> saved
           Pulled(r) == Returned(r, clean /\ (IsTok(r) \/ r = EndOfStream))
       IN Pulled(next(text, next_pos))
    /\ prev_pos' = next_pos
    /\ op' = "next"
    /\ UNCHANGED text

\* Tokenizer::consume_char
ConsumeChar ==
    /\ Alive
    /\ LET Consumed(r) ==
               /\ last' = r
               /\ next_pos' = IF r.tag = "Some" THEN step_by_char(next_pos, r.num)
                              ELSE next_pos
       IN Consumed(consume_char(text, next_pos))
    /\ prev_pos' = next_pos
    /\ op' = "consume_char"
    /\ clean' = FALSE
    /\ emitted' = <<>>
    /\ saved' = IF saved.st \in {"taken", "restored"} THEN NoSave ELSE saved
    /\ UNCHANGED text

\* Tokenizer::next_position: the caller keeps the cursor it is given.
NextPosition ==
    /\ Alive
    /\ saved.st = "none"
    /\ saved' = [saved EXCEPT !.st = "taken", !.pos = next_pos]
    /\ UNCHANGED <<text, next_pos, last, prev_pos, op, emitted, clean>>

\* Tokenizer::set_position, with the position the caller kept.
SetPosition ==
    /\ Alive
    /\ saved.st \in {"pulled", "again"}
    /\ next_pos' = set_position(next_pos, saved.pos)
    /\ prev_pos' = next_pos
    /\ op' = "set_position"
    /\ clean' = FALSE
    /\ emitted' = <<>>
    /\ saved' = [saved EXCEPT !.st = "restored"]
    /\ UNCHANGED <<text, last>>

Next == Pull \/ ConsumeChar \/ NextPosition \/ SetPosition

Spec == Init /\ [][Next]_vars

-----------------------------------------------------------------------------
(* The recovery policy: pull; when the pull fails, consume_char and pull *)

\* The last pull returned end of stream.
Finished == op = "next" /\ last.tag = "None"

\* The last pull returned an error.
PullFailed == op = "next" /\ IsErr(last)

RecoveryPull == ~Finished /\ ~PullFailed /\ Pull

RecoveryConsumeChar == PullFailed /\ ConsumeChar

RecoveryNext == RecoveryPull \/ RecoveryConsumeChar

\* The caller's loop; it stops calling once the stream has ended.
RecoverySpec == Init /\ [][RecoveryNext]_vars

-----------------------------------------------------------------------------
(* The recognizers called directly: each from_text is public *)

\* The positions a caller passes: the initial one and one further on.
StartPositions == {PositionNew, [offset |-> 7, line |-> 3, column |-> 2]}

InitCall ==
    /\ text \in Inputs
    /\ next_pos \in StartPositions
    /\ last = EndOfStream
    /\ prev_pos = next_pos
    /\ op = "new"
    /\ emitted = <<>>
    /\ clean = FALSE
    /\ saved = NoSave

\* One call of the recognizer `name`, which returns r.
Call(name, r) ==
    /\ op = "new"
    /\ op' = name
    /\ last' = r
    /\ UNCHANGED <<text, next_pos, prev_pos, emitted, clean, saved>>

CallAtom == Call("AtomToken", AtomToken_from_text(text, next_pos))
CallChar == Call("CharToken", CharToken_from_text(text, next_pos))
CallComment == Call("CommentToken", CommentToken_from_text(text, next_pos))
CallFloat == Call("FloatToken", FloatToken_from_text(text, next_pos))
CallInteger == Call("IntegerToken", IntegerToken_from_text(text, next_pos))
CallKeyword == Call("KeywordToken", KeywordToken_from_text(text, next_pos))
CallSigilString == Call("SigilStringToken", SigilStringToken_from_text(text, next_pos))
CallString == Call("StringToken", StringToken_from_text(text, next_pos))
CallSymbol == Call("SymbolToken", SymbolToken_from_text(text, next_pos))
CallVariable == Call("VariableToken", VariableToken_from_text(text, next_pos))
CallWhitespace == Call("WhitespaceToken", WhitespaceToken_from_text(text, next_pos))
CallToken == Call("Token", Token_from_text(text, next_pos))

NextCall ==
    \/ CallAtom \/ CallChar \/ CallComment \/ CallFloat \/ CallInteger \/ CallKeyword
    \/ CallSigilString \/ CallString \/ CallSymbol \/ CallVariable \/ CallWhitespace
    \/ CallToken

RecognizerSpec == InitCall /\ [][NextCall]_vars

-----------------------------------------------------------------------------
(* Properties of the token stream *)

RECURSIVE ConcatTexts(_)
\* The texts of the tokens ts, concatenated in order.
ConcatTexts(ts) ==
    IF ts = <<>> THEN <<>> ELSE TokenText(Head(ts)) \o ConcatTexts(Tail(ts))

\* Token t's text is the slice of the input between its start and end.
IsInputSlice(t, b, e) ==
    /\ SliceOk(text, b, e)
    /\ TokenText(t) = Slice(text, b, e)
    /\ b + ByteLen(TokenText(t)) = e

C6_Total == ~IsPanic(last)

IsWidthToken(t) ==
    \/ t.kind \in {"Comment", "Float", "Integer", "Keyword", "Symbol", "Variable"}
    \/ t.kind = "Atom" /\ ~t.some

\* C8 (line accounting): for a token of any kind that a recognizer returns,
\* the end line minus the start line is the number of '\n' in its text; a
\* token whose end is computed by step_by_width has no '\n' in its text.
C8_LineAccounting ==
    IsTok(last) =>
        /\ end_position(last).line - start_position(last).line
              = CountChar(TokenText(last), Ch.LF)
        /\ IsWidthToken(last) => ~Contains(TokenText(last), Ch.LF)

\* A recognizer called at line 3 returned a token spanning three lines.
C8_Witness ==
    /\ IsTok(last)
    /\ op \in {"StringToken", "AtomToken", "SigilStringToken"}
    /\ start_position(last).line = 3
    /\ CountChar(TokenText(last), Ch.LF) >= 2

\* The reserved words.
ReservedWords ==
    {<<97, 102, 116, 101, 114>>, <<97, 110, 100>>, <<97, 110, 100, 97, 108, 115, 111>>, <<98, 97, 110, 100>>,   \* after and andalso band
     <<98, 101, 103, 105, 110>>, <<98, 110, 111, 116>>, <<98, 111, 114>>, <<98, 115, 108>>,   \* begin bnot bor bsl
     <<98, 115, 114>>, <<98, 120, 111, 114>>, <<99, 97, 115, 101>>, <<99, 97, 116, 99, 104>>,   \* bsr bxor case catch
     <<99, 111, 110, 100>>, <<100, 105, 118>>, <<101, 110, 100>>, <<102, 117, 110>>,   \* cond div end fun
     <<105, 102>>, <<108, 101, 116>>, <<109, 97, 121, 98, 101>>, <<101, 108, 115, 101>>,   \* if let maybe else
     <<110, 111, 116>>, <<111, 102>>, <<111, 114>>, <<111, 114, 101, 108, 115, 101>>,   \* not of or orelse
     <<114, 101, 99, 101, 105, 118, 101>>, <<114, 101, 109>>, <<116, 114, 121>>, <<119, 104, 101, 110>>,   \* receive rem try when
     <<120, 111, 114>>}   \* xor

SymbolSpellings ==
    {<<61, 58, 61>>, <<61, 47, 61>>, <<46, 46, 46>>, <<60, 58, 45>>, <<60, 58, 61>>, <<58, 58>>,   \* =:= =/= ... <:- <:= ::
     <<58, 61>>, <<124, 124>>, <<45, 45>>, <<43, 43>>, <<45, 62>>, <<60, 45>>,   \* := || -- ++ -> <-
     <<61, 62>>, <<60, 61>>, <<62, 62>>, <<60, 60>>, <<61, 61>>, <<47, 61>>,   \* => <= >> << == /=
     <<62, 61>>, <<61, 60>>, <<63, 63>>, <<63, 61>>, <<46, 46>>, <<38, 38>>,   \* >= =< ?? ?= .. &&
     <<91>>, <<93>>, <<40>>, <<41>>, <<123>>, <<125>>,   \* [ ] ( ) { }
     <<35>>, <<47>>, <<46>>, <<44>>, <<58>>, <<59>>,   \* # / . , : ;
     <<61>>, <<124>>, <<63>>, <<33>>, <<45>>, <<43>>,   \* = | ? ! - +
     <<42>>, <<62>>, <<60>>}   \* * > <

\* The spellings of the symbol table the input starts with.
SymbolPrefixes ==
    { w \in SymbolSpellings : Len(w) <= Len(text) /\ SubSeq(text, 1, Len(w)) = w }

\* C10 (symbol longest match): SymbolToken::from_text returns the longest
\* spelling of the symbol table that is a prefix of the input, with that
\* spelling as its text, and fails with InvalidSymbolToken exactly when no
\* spelling is a prefix of the input.
C10_SymbolLongestMatch ==
    op = "SymbolToken" =>
        IF SymbolPrefixes = {}
        THEN IsErr(last) /\ last.kind = "InvalidSymbolToken"
        ELSE /\ IsTok(last)
             /\ last.kind = "Symbol"
             /\ TokenText(last) \in SymbolPrefixes
             /\ \A w \in SymbolPrefixes : Len(w) <= Len(TokenText(last))

\* A three-character symbol was recognized where its one- and
\* two-character beginnings are symbols too, before further input.
C10_Witness ==
    /\ op = "SymbolToken"
    /\ IsTok(last)
    /\ Len(TokenText(last)) = 3
    /\ Cardinality(SymbolPrefixes) >= 2
    /\ Len(text) > 3

-----------------------------------------------------------------------------
(* Properties of the values of Char and String tokens *)

\* Whether the string text t is in the triple-quoted form.
IsTripleQuoted(t) == Len(t) >= 3 /\ Sub(t, 1, 3) = <<Ch.DQ, Ch.DQ, Ch.DQ>>

\* Char index of the last '\n' of s; 0 when there is none.
LastLF(s) ==
    LET idx == { i \in 1..Len(s) : s[i] = Ch.LF }
    IN IF idx = {} THEN 0 ELSE CHOOSE i \in idx : \A j \in idx : j <= i

RECURSIVE SplitLF(_)
\* The lines of s, split at every '\n'.
SplitLF(s) ==
    LET i == Find(s, Ch.LF)
    IN IF i = 0 THEN <<s>> ELSE <<Sub(s, 1, i - 1)>> \o SplitLF(From(s, i + 1))

RECURSIVE JoinLF(_)
\* The lines ls joined with '\n' between them.
JoinLF(ls) ==
    IF Len(ls) = 0 THEN <<>>
    ELSE IF Len(ls) = 1 THEN ls[1]
    ELSE ls[1] \o <<Ch.LF>> \o JoinLF(Tail(ls))

\* The indentation of the closing delimiter of the triple-quoted text t:
\* the characters of its last line before the closing quotes.
ClosingIndent(t) == Len(t) - LastLF(t) - CountLeading(t, Ch.DQ, 1)

\* The content lines of the triple-quoted text t: what lies between the
\* '\n' that ends the opening line and the '\n' before the closing line.
ContentLines(t) ==
    IF LastLF(t) <= Find(t, Ch.LF) THEN <<>>
    ELSE SplitLF(Sub(t, Find(t, Ch.LF) + 1, LastLF(t) - 1))

\* The content of the triple-quoted text t: its content lines, each without
\* its first k characters, joined with their '\n', the last '\n' left out.
TripleQuotedContent(t, k) ==
    JoinLF([i \in 1..Len(ContentLines(t)) |->
              IF Len(ContentLines(t)[i]) <= k THEN <<>>
              ELSE From(ContentLines(t)[i], k + 1)])

\* The content between the delimiters of the string text t.
ContentBetweenDelimiters(t) ==
    IF IsTripleQuoted(t) THEN TripleQuotedContent(t, ClosingIndent(t))
    ELSE Sub(t, 2, Len(t) - 1)

\* C11 (escape round trip): the value of a Char or String token whose text
\* has no backslash is the content between its delimiters (single-quoted
\* form and triple-quoted alike); for a Char it is the code point after '$'.
C11_EscapeRoundTrip ==
    (IsTok(last) /\ last.kind \in {"Char", "String"}
       /\ ~Contains(last.text, Ch.BACKSLASH)) =>
        IF last.kind = "Char" THEN CharToken_value(last) = last.text[2]
        ELSE StringToken_value(last) = ContentBetweenDelimiters(last.text)

\* The same for Char tokens and strings in the single-quoted form only.
C11_SingleQuotedRoundTrip ==
    (IsTok(last) /\ last.kind \in {"Char", "String"}
       /\ ~Contains(last.text, Ch.BACKSLASH) /\ ~IsTripleQuoted(last.text)) =>
        IF last.kind = "Char" THEN CharToken_value(last) = last.text[2]
        ELSE StringToken_value(last) = ContentBetweenDelimiters(last.text)

-----------------------------------------------------------------------------
(* Position stepped directly: one step from a start position over the text *)

\* p.step_by_char(c) for the first character c of the text.
StepByChar ==
    /\ op = "new"
    /\ text # <<>>
    /\ op' = "step_by_char"
    /\ next_pos' = step_by_char(next_pos, text[1])
    /\ UNCHANGED <<text, last, prev_pos, emitted, clean, saved>>

\* p.step_by_text(text)
StepByText ==
    /\ op = "new"
    /\ op' = "step_by_text"
    /\ next_pos' = step_by_text(next_pos, text)
    /\ UNCHANGED <<text, last, prev_pos, emitted, clean, saved>>

\* p.step_by_width(text.len())
StepByWidth ==
    /\ op = "new"
    /\ op' = "step_by_width"
    /\ next_pos' = step_by_width(next_pos, ByteLen(text))
    /\ UNCHANGED <<text, last, prev_pos, emitted, clean, saved>>

NextStep == StepByChar \/ StepByText \/ StepByWidth

PositionSpec == InitCall /\ [][NextStep]_vars

\* C12 (step_by_char): p.step_by_char(c) advances the offset by the UTF-8
\* length of c; for '\n' it increments the line and sets the column to 1,
\* otherwise it keeps the line and increments the column.
C12_StepByChar ==
    op = "step_by_char" =>
        /\ next_pos.offset = prev_pos.offset + len_utf8(text[1])
        /\ IF text[1] = Ch.LF
           THEN next_pos.line = prev_pos.line + 1 /\ next_pos.column = 1
           ELSE next_pos.line = prev_pos.line /\ next_pos.column = prev_pos.column + 1

\* The line and column part of the same, and the offset for a character of
\* one byte.
C12_StepByCharOneByte ==
    op = "step_by_char" =>
        /\ len_utf8(text[1]) = 1 => next_pos.offset = prev_pos.offset + 1
        /\ IF text[1] = Ch.LF
           THEN next_pos.line = prev_pos.line + 1 /\ next_pos.column = 1
           ELSE next_pos.line = prev_pos.line /\ next_pos.column = prev_pos.column + 1

RECURSIVE StepByChars(_, _)
\* step_by_char applied successively to each character of s, from p.
StepByChars(p, s) ==
    IF s = <<>> THEN p ELSE StepByChars(step_by_char(p, Head(s)), Tail(s))

\* C13 (step_by_text is step_by_char lifted): p.step_by_text(s) has the
\* offset and the line of step_by_char applied to each character of s in
\* turn from p, and its offset is p's plus the byte length of s.
C13_StepByTextLifted ==
    op = "step_by_text" =>
        /\ next_pos.offset = StepByChars(prev_pos, text).offset
        /\ next_pos.line = StepByChars(prev_pos, text).line
        /\ next_pos.offset = prev_pos.offset + ByteLen(text)

\* What of it the text's characters of one byte do not decide: the offset
\* grows by the byte length, the line is that of the successive steps.
C13_StepByTextLength ==
    op = "step_by_text" =>
        /\ next_pos.line = StepByChars(prev_pos, text).line
        /\ next_pos.offset = prev_pos.offset + ByteLen(text)

-----------------------------------------------------------------------------
(* Properties of the numeric recognizers *)

\* C14 (a radix float is pulled as one Float): when the remaining input
\* starts with a radix float literal (R#I.F or R#I.F#eX, which
\* FloatToken::from_text recognizes), what the tokenizer dispatches to,
\* Token::from_text, returns that one Float token with the whole literal as
\* its text; 2#0.10101#e8 gives one Float whose value is 168.0, which is
\* (0 + 21/2^5) * 2^8.
C14_RadixFloatPulled ==
    op = "Token" =>
        LET Same(f) ==
              /\ (is_based(text) /\ IsTok(f)) => last = f
              /\ text = <<50, 35, 48, 46, 49, 48, 49, 48, 49, 35, 101, 56>> =>
                    /\ IsTok(last) /\ last.kind = "Float"
                    /\ last.str = <<2, 0, 21, 5, 8>>
                    /\ last.text = text
        IN Same(FloatToken_from_text(text, next_pos))

\* The maximal prefix of s made of digits of radix r and underscores.
MaxRun(s, r) ==
    LET idx == { i \in 1..Len(s) : ~(is_digit(s[i], r) \/ s[i] = Ch.UNDERSCORE) }
    IN IF idx = {} THEN s ELSE Sub(s, 1, (CHOOSE i \in idx : \A j \in idx : i <= j) - 1)

\* A digit run of radix r: digits, with single underscores between digits.
IsDigitRun(s, r) ==
    /\ s # <<>>
    /\ \A i \in 1..Len(s) : is_digit(s[i], r) \/ s[i] = Ch.UNDERSCORE
    /\ s[1] # Ch.UNDERSCORE
    /\ s[Len(s)] # Ch.UNDERSCORE
    /\ \A i \in 1..(Len(s) - 1) : ~(s[i] = Ch.UNDERSCORE /\ s[i + 1] = Ch.UNDERSCORE)

RECURSIVE RunValue(_, _)
\* The value in radix r of the digits of s, its underscores left out.
RunValue(s, r) ==
    IF s = <<>> THEN 0
    ELSE IF s[Len(s)] = Ch.UNDERSCORE THEN RunValue(Sub(s, 1, Len(s) - 1), r)
    ELSE RunValue(Sub(s, 1, Len(s) - 1), r) * r + to_digit(s[Len(s)], r)

\* The text before the first '#' of s, and the text after it.
BeforeSharp(s) == Sub(s, 1, Find(s, Ch.SHARP) - 1)
AfterSharp(s) == From(s, Find(s, Ch.SHARP) + 1)

\* The radix a decimal digit run denotes, capped above the largest radix.
RadixOf(s) == IF RunValue(s, 10) > 36 THEN 37 ELSE RunValue(s, 10)

\* C15 (radix integers): on R#D, R a decimal digit run and D the digits and
\* underscores that follow the '#', D a digit run or not starting with a
\* digit, IntegerToken::from_text succeeds exactly when 2 <= R <= 36 and D
\* starts with a digit of base R; the value is that of D's digits in base R,
\* the text is R#D; a radix outside 2..36 gives InvalidIntegerToken.
\* 1_6#ab0e has the value 0xAB0E = 43790.
C15_RadixInteger ==
    (op = "IntegerToken" /\ Contains(text, Ch.SHARP) /\ IsDigitRun(BeforeSharp(text), 10)) =>
        LET Based(R, r, D) ==
              IF r < 2 \/ r > 36
              THEN IsErr(last) /\ last.kind = "InvalidIntegerToken" /\ last.pos = next_pos
              ELSE (D = <<>> \/ D[1] = Ch.UNDERSCORE \/ IsDigitRun(D, r)) =>
                     IF D # <<>> /\ is_digit(D[1], r)
                     THEN /\ IsTok(last) /\ last.kind = "Integer"
                          /\ last.num = RunValue(D, r)
                          /\ last.text = R \o <<Ch.SHARP>> \o D
                          /\ last.pos = next_pos
                     ELSE IsErr(last) /\ last.kind = "InvalidIntegerToken"
            OfRadix(R, r) == Based(R, r, IF r < 2 \/ r > 36 THEN <<>> ELSE MaxRun(AfterSharp(text), r))
        IN /\ OfRadix(BeforeSharp(text), RadixOf(BeforeSharp(text)))
           /\ text = <<49, 95, 54, 35, 97, 98, 48, 101>> => IsTok(last) /\ last.num = 43790

\* A radix integer with an underscore in its radix and one in its digits was
\* recognized before further input.
C15_Witness ==
    /\ op = "IntegerToken"
    /\ IsTok(last)
    /\ Contains(last.text, Ch.SHARP)
    /\ Contains(BeforeSharp(last.text), Ch.UNDERSCORE)
    /\ Contains(AfterSharp(last.text), Ch.UNDERSCORE)
    /\ last.num > 36
    /\ Len(last.text) < Len(text)

\* The input left at the cursor the last operation started from.
RestBefore == From(text, CharsBefore(text, prev_pos.offset) + 1)

\* Whether the integer literal s starts with has a misplaced underscore or
\* no digit after its '#': its decimal run ends in '_' (also when a '#'
\* follows) or has "__"; or, after a radix in 2..36, the run of digits and
\* underscores is empty, starts or ends with '_', or has "__".
IsMalformedInteger(s) ==
    /\ s # <<>>
    /\ IsDecDigit(s[1])
    /\ LET Radix(M, rest) ==
              /\ rest # <<>>
              /\ rest[1] = Ch.SHARP
              /\ RadixOf(M) >= 2
              /\ RadixOf(M) <= 36
              /\ ~IsDigitRun(MaxRun(From(rest, 2), RadixOf(M)), RadixOf(M))
           First(M) == ~IsDigitRun(M, 10) \/ Radix(M, From(s, Len(M) + 1))
       IN First(MaxRun(s, 10))

-----------------------------------------------------------------------------
(* Properties of triple-quoted strings *)

\* The triple-quoted text t written with indentation 0: its opening line,
\* its content lines without their first k characters, its closing quotes.
Unindented(t, k) ==
    Sub(t, 1, Find(t, Ch.LF))
      \o (IF ContentLines(t) = <<>> THEN <<>>
          ELSE TripleQuotedContent(t, k) \o <<Ch.LF>>)
      \o From(t, LastLF(t) + k + 1)

\* C17 (value of a triple-quoted string): the value of a triple-quoted
\* string whose closing delimiter is indented by k whitespace characters is
\* its content lines, each without its first k characters, joined with
\* their '\n', the last '\n' left out; it is the value of the same literal
\* written with indentation 0.
C17_TripleQuotedValue ==
    (op = "StringToken" /\ IsTok(last) /\ IsTripleQuoted(last.text)) =>
        LET Same(k, flat) ==
              /\ StringToken_value(last) = TripleQuotedContent(last.text, k)
              /\ IsTok(flat)
              /\ StringToken_value(last) = StringToken_value(flat)
            Indented(k) ==
              Same(k, StringToken_from_text(Unindented(last.text, k), next_pos))
        IN Indented(ClosingIndent(last.text))

\* The same for the literals whose closing delimiter is not indented, and
\* for those with a single content line.
C17_UnindentedOrOneLine ==
    (op = "StringToken" /\ IsTok(last) /\ IsTripleQuoted(last.text)
       /\ (ClosingIndent(last.text) = 0 \/ Len(ContentLines(last.text)) = 1)) =>
        StringToken_value(last) = TripleQuotedContent(last.text, ClosingIndent(last.text))

-----------------------------------------------------------------------------
(* Properties of the errors of the string recognizer *)

\* Whether the text p is one whole string literal when read from pos.
IsWholeLiteral(p, pos) ==
    LET Whole(t) == IsTok(t) /\ t.text = p
    IN Whole(StringToken_from_text(p, pos))

\* The position pos advanced over the text p.
AdvancedOver(pos, p) ==
    [offset |-> pos.offset + ByteLen(p),
     line   |-> pos.line + CountChar(p, Ch.LF),
     column |-> IF LastLF(p) = 0 THEN pos.column + ByteLen(p)
                ELSE 1 + ByteLen(From(p, LastLF(p) + 1))]

\* C18 (adjacent string literals): when the text starts with a string
\* literal, in the single-quoted or the triple-quoted form, whose closing
\* quote is directly followed by another '"', StringToken::from_text fails
\* with AdjacentStringLiterals at the position of that following quote: the
\* start advanced over the first literal's text.
C18_AdjacentStringLiterals ==
    op = "StringToken" =>
        \A n \in 1..(Len(text) - 1) :
            (/\ text[n + 1] = Ch.DQ
             /\ IsTripleQuoted(Sub(text, 1, n)) = IsTripleQuoted(text)
             /\ IsWholeLiteral(Sub(text, 1, n), next_pos))
            => /\ IsErr(last)
               /\ last.kind = "AdjacentStringLiterals"
               /\ last.pos = AdvancedOver(next_pos, Sub(text, 1, n))

\* A triple-quoted literal that spans lines, read from a later position,
\* was followed by a quote.
C18_Witness ==
    /\ op = "StringToken"
    /\ IsErr(last)
    /\ last.kind = "AdjacentStringLiterals"
    /\ next_pos.offset > 0
    /\ last.pos.line > next_pos.line
    /\ IsTripleQuoted(text)

\* Whether the triple-quoted text t has a closing delimiter: after the
\* opening line, a line that starts with whitespace followed by as many
\* quotes as open t.
HasClosingDelimiter(t) ==
    LET N == CountLeading(t, Ch.DQ, 1)
        IsBlank(c) == is_ascii_whitespace(c) /\ c # Ch.LF
        ClosesAt(j) ==
            \E k \in 0..(Len(t) - j + 1) :
                /\ \A m \in 0..(k - 1) : IsBlank(t[j + m])
                /\ j + k + N - 1 <= Len(t)
                /\ \A m \in 0..(N - 1) : t[j + k + m] = Ch.DQ
    IN \E j \in 2..Len(t) : j - 1 >= Find(t, Ch.LF) /\ t[j - 1] = Ch.LF /\ ClosesAt(j)

\* The opening line of the triple-quoted text t after its quotes, up to and
\* without its '\n' (to the end of t when there is none).
OpeningLineRest(t) ==
    IF Find(t, Ch.LF) = 0 THEN From(t, CountLeading(t, Ch.DQ, 1) + 1)
    ELSE Sub(t, CountLeading(t, Ch.DQ, 1) + 1, Find(t, Ch.LF) - 1)

\* Whether every character of s is ASCII whitespace.
IsBlankText(s) == \A i \in 1..Len(s) : is_ascii_whitespace(s[i])

\* C19 (opening line and missing ends of a triple-quoted string): for a text
\* that starts with three or more quotes, a character that is not
\* whitespace after the quotes on the opening line gives an error; the end
\* of the input before the '\n' of the opening line, or before a closing
\* delimiter, gives NoClosingQuotation; each error is at the start
\* position; a token is returned only when the rest of the opening line is
\* whitespace that ends in '\n'.
C19_TripleQuotedErrors ==
    (op = "StringToken" /\ IsTripleQuoted(text)) =>
        /\ ~IsBlankText(OpeningLineRest(text)) => IsErr(last) /\ last.pos = next_pos
        /\ (IsBlankText(OpeningLineRest(text))
              /\ (~Contains(text, Ch.LF) \/ ~HasClosingDelimiter(text)))
           => /\ IsErr(last)
              /\ last.kind = "NoClosingQuotation"
              /\ last.pos = next_pos
        /\ IsTok(last) => IsBlankText(OpeningLineRest(text)) /\ Contains(text, Ch.LF)

\* The part of it about the opening line.
C19_OpeningLine ==
    (op = "StringToken" /\ IsTripleQuoted(text)) =>
        /\ ~IsBlankText(OpeningLineRest(text)) => IsErr(last) /\ last.pos = next_pos
        /\ (IsBlankText(OpeningLineRest(text)) /\ ~Contains(text, Ch.LF))
           => /\ IsErr(last)
              /\ last.kind = "NoClosingQuotation"
              /\ last.pos = next_pos
        /\ IsTok(last) => IsBlankText(OpeningLineRest(text)) /\ Contains(text, Ch.LF)

-----------------------------------------------------------------------------
(* Properties of the sigil string recognizer *)

\* The opening delimiters of a sigil string: ( [ { < / | ' ` # "
SigilOpeners ==
    {Ch.LPAREN, Ch.LBRACKET, Ch.LBRACE, Ch.LT, Ch.SLASH, Ch.BAR, Ch.SQ,
     Ch.BACKQUOTE, Ch.SHARP, Ch.DQ}

\* The closer that matches an opener: ) ] } > for the brackets, the opener
\* itself otherwise.
MatchingCloser(o) ==
    CASE o = Ch.LPAREN -> Ch.RPAREN
      [] o = Ch.LBRACKET -> Ch.RBRACKET
      [] o = Ch.LBRACE -> Ch.RBRACE
      [] o = Ch.LT -> Ch.GT
      [] OTHER -> o

\* Char index of the last character of the maximal run of atom continuation
\* characters of s that starts at char index k; k - 1 when the run is empty.
AtomRunEnd(s, k) ==
    LET stop == { i \in k..Len(s) : ~is_atom_non_head_char(s[i]) }
    IN IF stop = {} THEN Len(s) ELSE (CHOOSE i \in stop : \A j \in stop : i <= j) - 1

\* Char index of the character that closes the sigil string of s opened at
\* char index o: the first matching closer after it; 0 when there is none.
SigilCloser(s, o) ==
    LET cs == { c \in (o + 1)..Len(s) : s[c] = MatchingCloser(s[o]) }
    IN IF cs = {} THEN 0 ELSE CHOOSE c \in cs : \A d \in cs : c <= d

-----------------------------------------------------------------------------
(* Properties of the dispatch on digits *)

\* Char index of the first character of s that is neither a decimal digit
\* nor '_'; 0 when there is none.
AfterDecimalRun(s) ==
    LET idx == { i \in 1..Len(s) : ~(IsDecDigit(s[i]) \/ s[i] = Ch.UNDERSCORE) }
    IN IF idx = {} THEN 0 ELSE CHOOSE i \in idx : \A j \in idx : i <= j

\* The float rule of the dispatch: the first character after the leading run
\* of decimal digits and '_' is a '.' directly followed by a decimal digit.
IsFloatLed(s) ==
    LET k == AfterDecimalRun(s)
    IN k # 0 /\ s[k] = Ch.DOT /\ k < Len(s) /\ IsDecDigit(s[k + 1])

\* C21 (float or integer): on a text that starts with a decimal digit,
\* Token::from_text, what a pull runs on the remaining input, returns a
\* Float only under the float rule, returns what FloatToken::from_text
\* returns when the rule holds and what IntegerToken::from_text returns when
\* it does not; 1_0.0 and 1.2_3e+1_0 are each one Float with the whole text,
\* and 1. before a non-digit or the end is the Integer 1.
C21_FloatOrInteger ==
    (op = "Token" /\ text # <<>> /\ IsDecDigit(text[1])) =>
        /\ (IsTok(last) /\ last.kind = "Float") => IsFloatLed(text)
        /\ IsFloatLed(text) => last = FloatToken_from_text(text, next_pos)
        /\ ~IsFloatLed(text) => last = IntegerToken_from_text(text, next_pos)
        /\ text \in {<<49, 95, 48, 46, 48>>,
                     <<49, 46, 50, 95, 51, 101, 43, 49, 95, 48>>} =>
              IsTok(last) /\ last.kind = "Float" /\ last.text = text
        /\ text \in {<<49, 46>>, <<49, 46, 97>>} =>
              IsTok(last) /\ last.kind = "Integer" /\ last.text = <<49>>

\* The same for texts whose leading run of decimal digits has no '_'.
C21_WithoutSeparators ==
    (/\ op = "Token" /\ text # <<>> /\ IsDecDigit(text[1])
     /\ (AfterDecimalRun(text) # 0 => ~Contains(Sub(text, 1, AfterDecimalRun(text) - 1), Ch.UNDERSCORE))
     /\ (AfterDecimalRun(text) = 0 => ~Contains(text, Ch.UNDERSCORE))) =>
        /\ (IsTok(last) /\ last.kind = "Float") => IsFloatLed(text)
        /\ IsFloatLed(text) => last = FloatToken_from_text(text, next_pos)
        /\ ~IsFloatLed(text) => last = IntegerToken_from_text(text, next_pos)
        /\ text = <<49, 46, 50, 95, 51, 101, 43, 49, 95, 48>> =>
              IsTok(last) /\ last.kind = "Float" /\ last.text = text
        /\ text \in {<<49, 46>>, <<49, 46, 97>>} =>
              IsTok(last) /\ last.kind = "Integer" /\ last.text = <<49>>

-----------------------------------------------------------------------------
(* Properties of the radix float recognizer *)

\* The parts of a text that starts with R#I.F#e, by char index: the first
\* '#', the first '.' after it, the first '#' after that, and where the
\* exponent's digits start (after an optional sign).
RadixFloatParts(s) ==
    LET s1 == Find(s, Ch.SHARP)
        d  == IF s1 = 0 THEN 0 ELSE FindFrom(s, Ch.DOT, s1 + 1)
        s2 == IF d = 0 THEN 0 ELSE FindFrom(s, Ch.SHARP, d + 1)
        signed == s2 # 0 /\ s2 + 2 <= Len(s) /\ s[s2 + 2] \in {Ch.PLUS, Ch.MINUS}
    IN [s1 |-> s1, d |-> d, s2 |-> s2, sign |-> IF signed THEN s[s2 + 2] ELSE 0,
        xs |-> IF signed THEN s2 + 3 ELSE s2 + 2]

\* Whether s starts with a radix float with an exponent, R#I.F#eSX: R a
\* decimal digit run in 2..36, I and F digit runs of base R, S absent, '+' or
\* '-', X a decimal digit run; not followed by a further digit or '_'.
IsRadixFloatWithExponent(s) ==
    LET p == RadixFloatParts(s)
        r == RadixOf(Sub(s, 1, p.s1 - 1))
    IN /\ p.s2 # 0
       /\ IsDigitRun(Sub(s, 1, p.s1 - 1), 10)
       /\ r >= 2 /\ r <= 36
       /\ IsDigitRun(Sub(s, p.s1 + 1, p.d - 1), r)
       /\ IsDigitRun(Sub(s, p.d + 1, p.s2 - 1), r)
       /\ p.s2 < Len(s) /\ s[p.s2 + 1] = 101
       /\ IsDigitRun(MaxRun(From(s, p.xs), 10), 10)

\* The Float token a radix float with an exponent at the start of s denotes:
\* its radix, integer part, fraction, number of fraction digits and signed
\* exponent, with the literal as its text.
RadixFloatOf(s, pos) ==
    LET p == RadixFloatParts(s)
        r == RadixOf(Sub(s, 1, p.s1 - 1))
        F == Sub(s, p.d + 1, p.s2 - 1)
        X == MaxRun(From(s, p.xs), 10)
    IN Tok("Float", "", TRUE,
           <<r, RunValue(Sub(s, p.s1 + 1, p.d - 1), r), RunValue(F, r),
             Len(F) - CountChar(F, Ch.UNDERSCORE),
             IF p.sign = Ch.MINUS THEN 0 - RunValue(X, 10) ELSE RunValue(X, 10)>>,
           0, Sub(s, 1, p.xs + Len(X) - 1), pos)

\* C22 (radix float exponents): on a text that starts with R#I.F#e S X, the
\* sign S absent, '+' or '-' and X a decimal digit run, FloatToken::from_text
\* returns the Float whose text is the whole literal, exponent included, and
\* whose value is the mantissa I.F in base R scaled by R to the power of the
\* signed exponent.
C22_RadixFloatExponent ==
    (op = "FloatToken" /\ IsRadixFloatWithExponent(text)) =>
        last = RadixFloatOf(text, next_pos)

\* The same for the exponents without a sign or with '-'.
C22_UnsignedOrMinus ==
    (/\ op = "FloatToken" /\ IsRadixFloatWithExponent(text)
     /\ RadixFloatParts(text).sign # Ch.PLUS) =>
        last = RadixFloatOf(text, next_pos)

-----------------------------------------------------------------------------
(* Properties of the escape decoder *)

\* '0'..'7'
IsOctalDigit(c) == c >= 48 /\ c <= 55

\* The octal digits of an escape whose first digit is at char index k of s:
\* the run of octal digits from k, at most three of them.
OctalDigits(s, k) ==
    IF ~(k <= Len(s) /\ IsOctalDigit(s[k])) THEN <<>>
    ELSE IF ~(k + 1 <= Len(s) /\ IsOctalDigit(s[k + 1])) THEN Sub(s, k, k)
    ELSE IF ~(k + 2 <= Len(s) /\ IsOctalDigit(s[k + 2])) THEN Sub(s, k, k + 1)
    ELSE Sub(s, k, k + 2)

\* C23 (octal escapes): on $\ followed by one to three octal digits (as many
\* as there are, up to three), CharToken::from_text, which decodes the
\* escape with parse_escaped_char, returns the character whose code point is
\* the octal value of those digits, and its text ends with the last of them.
C23_OctalEscape ==
    (/\ op = "CharToken" /\ Len(text) >= 3
     /\ text[1] = Ch.DOLLAR /\ text[2] = Ch.BACKSLASH /\ IsOctalDigit(text[3])) =>
        /\ IsTok(last)
        /\ last.kind = "Char"
        /\ CharToken_value(last) = RunValue(OctalDigits(text, 3), 8)
        /\ last.text = Sub(text, 1, 2 + Len(OctalDigits(text, 3)))

\* The part of it that is about the extent: the escape reads exactly the
\* octal digits, up to three; and the value is the octal one when every
\* digit equals the first.
C23_OctalExtent ==
    (/\ op = "CharToken" /\ Len(text) >= 3
     /\ text[1] = Ch.DOLLAR /\ text[2] = Ch.BACKSLASH /\ IsOctalDigit(text[3])) =>
        /\ IsTok(last)
        /\ last.kind = "Char"
        /\ last.text = Sub(text, 1, 2 + Len(OctalDigits(text, 3)))
        /\ (\A i \in 1..Len(OctalDigits(text, 3)) : OctalDigits(text, 3)[i] = text[3])
              => CharToken_value(last) = RunValue(OctalDigits(text, 3), 8)

\* The maximal run of hexadecimal digits of s that starts at char index k.
HexRun(s, k) ==
    LET stop == { i \in k..Len(s) : ~is_digit(s[i], 16) }
    IN IF stop = {} THEN From(s, k)
       ELSE Sub(s, k, (CHOOSE i \in stop : \A j \in stop : i <= j) - 1)

\* C24 (lenient \x{): on $\x{ followed by hexadecimal digits and no closing
\* '}' anywhere after them, CharToken::from_text, which decodes the escape
\* with parse_escaped_char, returns without error the character whose code
\* point is the value of those digits, whatever follows the digits.
C24_UnclosedHexEscape ==
    (/\ op = "CharToken" /\ Len(text) >= 5
     /\ Sub(text, 1, 4) = <<Ch.DOLLAR, Ch.BACKSLASH, 120, Ch.LBRACE>>
     /\ HexRun(text, 5) # <<>>
     /\ IsScalar(RunValue(HexRun(text, 5), 16))
     /\ ~Contains(text, Ch.RBRACE)) =>
        /\ IsTok(last)
        /\ last.kind = "Char"
        /\ CharToken_value(last) = RunValue(HexRun(text, 5), 16)

\* The same when the hexadecimal digits run to the end of the text.
C24_DigitsToTheEnd ==
    (/\ op = "CharToken" /\ Len(text) >= 5
     /\ Sub(text, 1, 4) = <<Ch.DOLLAR, Ch.BACKSLASH, 120, Ch.LBRACE>>
     /\ HexRun(text, 5) = From(text, 5)
     /\ IsScalar(RunValue(HexRun(text, 5), 16))) =>
        /\ IsTok(last)
        /\ last.kind = "Char"
        /\ CharToken_value(last) = RunValue(HexRun(text, 5), 16)

\* An unclosed \x{ with other text after its digits is an error.
C24_TextAfterDigits ==
    (/\ op = "CharToken" /\ Len(text) >= 5
     /\ Sub(text, 1, 4) = <<Ch.DOLLAR, Ch.BACKSLASH, 120, Ch.LBRACE>>
     /\ HexRun(text, 5) # <<>>
     /\ HexRun(text, 5) # From(text, 5)
     /\ ~Contains(text, Ch.RBRACE)) =>
        last = Err("InvalidEscapedChar", next_pos)

-----------------------------------------------------------------------------
(* The quotation parser called directly on the text *)

\* The terminators the recognizers call parse_quotation with: '"' (strings),
\* '\'' (quoted atoms, sigil strings) and ')' (sigil strings).
Terminators == {Ch.DQ, Ch.SQ, Ch.RPAREN}

\* util::parse_quotation(pos, text, terminator); last holds the terminator
\* passed and the result.
ParseQuotation ==
    /\ op = "new"
    /\ \E t \in Terminators :
          last' = [terminator |-> t, result |-> parse_quotation(next_pos, text, t)]
    /\ op' = "parse_quotation"
    /\ UNCHANGED <<text, next_pos, prev_pos, emitted, clean, saved>>

NextQuotation == ParseQuotation

QuotationSpec == InitCall /\ [][NextQuotation]_vars

RECURSIVE QuotationScan(_, _, _, _)
\* A scan of input from char index k for the terminator t: "found" at the
\* first t that no escape has consumed, with the characters before it and
\* every escape decoded; "escape" at a backslash whose escape does not
\* decode; "end" when the end of the input comes first.
QuotationScan(input, t, k, buf) ==
    IF k > Len(input) THEN [kind |-> "end", at |-> k, str |-> buf]
    ELSE IF input[k] = Ch.BACKSLASH
    THEN LET Decoded(e) ==
               IF ~e.ok THEN [kind |-> "escape", at |-> k, str |-> buf]
               ELSE QuotationScan(input, t, e.next, Append(buf, e.c))
         IN Decoded(parse_escaped_char(input, k + 1))
    ELSE IF input[k] = t THEN [kind |-> "found", at |-> k, str |-> buf]
    ELSE QuotationScan(input, t, k + 1, Append(buf, input[k]))

\* Whether the escape whose backslash is at char index k of s is cut short
\* by the end of s: nothing after the backslash, after \^ or after \x, one
\* character after \x, or \x{ without a closing brace.
IsCutShort(s, k) ==
    \/ k + 1 > Len(s)
    \/ s[k + 1] = Ch.CARET /\ k + 2 > Len(s)
    \/ /\ s[k + 1] = 120
       /\ \/ k + 2 > Len(s)
          \/ s[k + 2] # Ch.LBRACE /\ k + 3 > Len(s)
          \/ s[k + 2] = Ch.LBRACE /\ FindFrom(s, Ch.RBRACE, k + 3) = 0

\* The answer of the quotation parser that a scan's outcome stands for:
\* the terminator's byte index and the decoded characters, or
\* NoClosingQuotation at the end of the input, or, at an escape that does
\* not decode, an error other than NoClosingQuotation (at an escape cut
\* short by the end of the input, any error).
AnswersScan(r, s, pos) ==
    CASE s.kind = "found" ->
           r.ok /\ r.end = ByteIdx(text, s.at) /\ r.str = s.str
      [] s.kind = "end" ->
           ~r.ok /\ r.err = Err("NoClosingQuotation", pos)
      [] OTHER ->
           ~r.ok /\ (IsCutShort(text, s.at) \/ r.err.kind = "InvalidEscapedChar")

\* C25 (the quotation parser): parse_quotation(pos, input, terminator)
\* returns the byte index of the first terminator that no escape has
\* consumed, with the characters before it, every escape decoded; it fails
\* with NoClosingQuotation exactly when the end of the input comes before
\* such a terminator, not when an escape that does not decode comes first;
\* and its result is what the owned path alone returns.
C25_ParseQuotation ==
    op = "parse_quotation" =>
        LET Same(r, owned) ==
              /\ r.ok = owned.ok
              /\ r.ok => (r.str = owned.str /\ r.end = owned.end)
              /\ ~r.ok => (r.err = owned.err \/ IsCutShort(text, Find(text, Ch.BACKSLASH)))
        IN /\ AnswersScan(last.result, QuotationScan(text, last.terminator, 1, <<>>), next_pos)
           /\ Same(last.result, parse_quotation_owned(next_pos, text, last.terminator))

\* The same for inputs in which the terminator occurs, escaped or not.
C25_TerminatorOccurs ==
    (op = "parse_quotation" /\ Contains(text, last.terminator)) =>
        LET Same(r, owned) ==
              /\ r.ok = owned.ok
              /\ r.ok => (r.str = owned.str /\ r.end = owned.end)
              /\ ~r.ok => r.err = owned.err
        IN /\ AnswersScan(last.result, QuotationScan(text, last.terminator, 1, <<>>), next_pos)
           /\ Same(last.result, parse_quotation_owned(next_pos, text, last.terminator))

\* Without the terminator anywhere in the input the answer is
\* NoClosingQuotation, whatever the escapes are.
C25_TerminatorMissing ==
    (op = "parse_quotation" /\ ~Contains(text, last.terminator)) =>
        /\ ~last.result.ok
        /\ last.result.err = Err("NoClosingQuotation", next_pos)

-----------------------------------------------------------------------------
(* Properties of the lines of a triple-quoted string *)

\* Whether t is a triple-quoted text of three quotes whose opening line is
\* just the quotes and whose last line is a closing delimiter indented by
\* k > 0 blanks, with no other quote in it.
IsIndentedTripleQuoted(t) ==
    /\ Len(t) >= 8
    /\ Sub(t, 1, 4) = <<Ch.DQ, Ch.DQ, Ch.DQ, Ch.LF>>
    /\ CountChar(t, Ch.DQ) = 6
    /\ From(t, Len(t) - 2) = <<Ch.DQ, Ch.DQ, Ch.DQ>>
    /\ Len(t) - 3 > LastLF(t)
    /\ \A i \in (LastLF(t) + 1)..(Len(t) - 3) : t[i] \in {Ch.SP, Ch.TAB}

\* Whether the content line l has a character that is not whitespace among
\* its first k characters.
StartsInsideIndent(l, k) ==
    \E j \in 1..Len(l) : j <= k /\ ~is_ascii_whitespace(l[j])

\* C26 (empty content lines): in a triple-quoted string whose closing
\* delimiter is indented by k > 0 and that has an empty content line,
\* StringToken::from_text rejects the literal only when some content line
\* has a character that is not whitespace among its first k characters;
\* otherwise it returns the token, and the empty line is an empty line of
\* the value.
C26_EmptyContentLine ==
    (/\ op = "StringToken" /\ IsIndentedTripleQuoted(text)
     /\ \E i \in 1..Len(ContentLines(text)) : ContentLines(text)[i] = <<>>) =>
        IF \E i \in 1..Len(ContentLines(text)) :
              StartsInsideIndent(ContentLines(text)[i], ClosingIndent(text))
        THEN IsErr(last)
        ELSE /\ IsTok(last)
             /\ last.text = text
             /\ Len(SplitLF(StringToken_value(last))) = Len(ContentLines(text))
             /\ \A i \in 1..Len(ContentLines(text)) :
                   ContentLines(text)[i] = <<>> => SplitLF(StringToken_value(last))[i] = <<>>

\* The rejection alone: a content line with a character that is not
\* whitespace among its first k characters gives InvalidStringToken at the
\* start position.
C26_InsideIndentRejected ==
    (/\ op = "StringToken" /\ IsIndentedTripleQuoted(text)
     /\ \E i \in 1..Len(ContentLines(text)) :
           StartsInsideIndent(ContentLines(text)[i], ClosingIndent(text))) =>
        last = Err("InvalidStringToken", next_pos)

\* What happens to an empty content line: before another content line it
\* gives InvalidStringToken.
C26_EmptyLineRejected ==
    (/\ op = "StringToken" /\ IsIndentedTripleQuoted(text)
     /\ \E i \in 1..(Len(ContentLines(text)) - 1) : ContentLines(text)[i] = <<>>) =>
        last = Err("InvalidStringToken", next_pos)

\* Whether the line of t that starts at char index j is a closing line for
\* N opening quotes: whitespace, if any, followed by N quotes in a row.
IsClosingLineAt(t, j, N) ==
    \E k \in 0..(Len(t) - j + 1) :
        /\ \A m \in 0..(k - 1) : is_ascii_whitespace(t[j + m]) /\ t[j + m] # Ch.LF
        /\ j + k + N - 1 <= Len(t)
        /\ \A m \in 0..(N - 1) : t[j + k + m] = Ch.DQ

\* C27 (the closing line): when StringToken::from_text returns a token for a
\* text that opens with N >= 3 quotes, the token's text is a prefix of the
\* input that ends right after the N-th quote of its last line, that line
\* is whitespace, if any, followed by N quotes in a row, and no line between
\* the opening line and it is such a line: content before the quotes, fewer
\* than N quotes, or quotes separated by whitespace do not close the string.
C27_ClosingLine ==
    (op = "StringToken" /\ IsTok(last) /\ IsTripleQuoted(text)) =>
        LET N == CountLeading(text, Ch.DQ, 1)
            t == last.text
        IN /\ t = Sub(text, 1, Len(t))
           /\ LastLF(t) # 0
           /\ IsClosingLineAt(t, LastLF(t) + 1, N)
           /\ \A i \in (LastLF(t) + 1)..Len(t) :
                 IF i > Len(t) - N THEN t[i] = Ch.DQ ELSE is_ascii_whitespace(t[i])
           /\ \A j \in (Find(t, Ch.LF) + 1)..LastLF(t) :
                 t[j - 1] = Ch.LF => ~IsClosingLineAt(t, j, N)

\* The part of it that holds: the last line of the token's text has exactly
\* N quotes and, but for them, only whitespace, it ends with a quote, and no
\* earlier line is a closing line.
C27_QuotesAndWhitespace ==
    (op = "StringToken" /\ IsTok(last) /\ IsTripleQuoted(text)) =>
        LET N == CountLeading(text, Ch.DQ, 1)
            t == last.text
        IN /\ t = Sub(text, 1, Len(t))
           /\ LastLF(t) # 0
           /\ t[Len(t)] = Ch.DQ
           /\ CountChar(From(t, LastLF(t) + 1), Ch.DQ) = N
           /\ \A i \in (LastLF(t) + 1)..Len(t) :
                 t[i] = Ch.DQ \/ is_ascii_whitespace(t[i])
           /\ \A j \in (Find(t, Ch.LF) + 1)..LastLF(t) :
                 t[j - 1] = Ch.LF => ~IsClosingLineAt(t, j, N)

-----------------------------------------------------------------------------
(* Properties of the dispatch on letters *)

IsOtherAlphabetic(c) == is_alphabetic(c) /\ ~IsUpperAscii(c) /\ ~is_lowercase(c)

-----------------------------------------------------------------------------
(* Properties of the positions of escape errors *)

\* Whether the text s, handed to the recognizer `name`, is in a quoted form
\* that decodes its content with the quotation parser: a quoted atom, a
\* string in the single-quoted form, a sigil string with an opener other
\* than '"'.
IsQuotedForm(name, s) ==
    /\ s # <<>>
    /\ CASE name = "AtomToken" -> s[1] = Ch.SQ
         [] name = "StringToken" -> s[1] = Ch.DQ /\ ~IsTripleQuoted(s)
         [] name = "SigilStringToken" ->
              /\ s[1] = Ch.TILDE
              /\ AtomRunEnd(s, 2) < Len(s)
              /\ s[AtomRunEnd(s, 2) + 1] \in SigilOpeners \ {Ch.DQ}
         [] OTHER -> FALSE

\* Char index of the opening delimiter of the quoted form s.
OpenerAt(name, s) == IF name = "SigilStringToken" THEN AtomRunEnd(s, 2) + 1 ELSE 1

\* Char index in s of the backslash of the first escape of the quoted form
\* that does not decode; 0 when the content is scanned without meeting one.
OffendingBackslash(name, s) ==
    LET o == OpenerAt(name, s)
        Of(r) == IF r.kind = "escape" THEN o + r.at ELSE 0
    IN Of(QuotationScan(From(s, o + 1), MatchingCloser(s[o]), 1, <<>>))

\* C30 (where InvalidEscapedChar points): when a quoted atom, a string or a
\* bracket-delimited sigil string fails with InvalidEscapedChar, the error's
\* position is that of the offending backslash: the token's start advanced
\* over the input before the backslash, in offset, line and column, also
\* when newlines or a sigil prefix precede the backslash.
C30_EscapeErrorPosition ==
    (/\ op \in {"AtomToken", "StringToken", "SigilStringToken"}
     /\ IsQuotedForm(op, text)
     /\ IsErr(last) /\ last.kind = "InvalidEscapedChar") =>
        /\ OffendingBackslash(op, text) # 0
        /\ last.pos = AdvancedOver(next_pos, Sub(text, 1, OffendingBackslash(op, text) - 1))

\* The same for quoted atoms and strings with no newline before the
\* backslash.
C30_OnTheFirstLine ==
    (/\ op \in {"AtomToken", "StringToken"}
     /\ IsQuotedForm(op, text)
     /\ IsErr(last) /\ last.kind = "InvalidEscapedChar"
     /\ ~Contains(Sub(text, 1, OffendingBackslash(op, text) - 1), Ch.LF)) =>
        /\ OffendingBackslash(op, text) # 0
        /\ last.pos = AdvancedOver(next_pos, Sub(text, 1, OffendingBackslash(op, text) - 1))

\* The offset alone is right in quoted atoms and strings, also after
\* newlines.
C30_OffsetInAtomsAndStrings ==
    (/\ op \in {"AtomToken", "StringToken"}
     /\ IsQuotedForm(op, text)
     /\ IsErr(last) /\ last.kind = "InvalidEscapedChar") =>
        last.pos.offset = next_pos.offset + ByteLen(Sub(text, 1, OffendingBackslash(op, text) - 1))

\* In a bracket-delimited sigil string the position is short of the
\* backslash by the length of `~` and the prefix.
C30_SigilOffset ==
    (/\ op = "SigilStringToken"
     /\ IsQuotedForm(op, text)
     /\ IsErr(last) /\ last.kind = "InvalidEscapedChar") =>
        last.pos.offset + ByteLen(Sub(text, 1, OpenerAt(op, text) - 1))
           = next_pos.offset + ByteLen(Sub(text, 1, OffendingBackslash(op, text) - 1))

====
